---- MODULE Spec2Model ----
(***************************************************************************)
(* Waiting-tile (tingpai) engine of mahjong_tingpai.py,                    *)
(* class MahjongTingpaiWithJoker.                                          *)
(*                                                                         *)
(* A tile is the Python string "<digit><suit letter>" or "j".  The engine  *)
(* orders tiles with sorted(), i.e. by string comparison: first the digit, *)
(* then the suit letter ('m' < 'p' < 's' < 'z'), and "j" after every       *)
(* digit.  A tile is modelled by the number 10 * digit + letter rank, and  *)
(* "j" by a number above all of them, so that < on the numbers is the      *)
(* string order, tile[0] is (t \div 10) and tile[-1] is (t % 10).          *)
(***************************************************************************)
EXTENDS Integers, Sequences, FiniteSets, TLC

VARIABLES
    hand,           \* the 13-tile list handed to find_winning_tiles
    winning_tiles,  \* the set find_winning_tiles returned for hand
    before,         \* the winning tiles of the hand before a wildcard replaced a tile
    replaced,       \* whether a tile of the hand has been replaced by a wildcard
    test_hand,      \* the 14-tile list handed to the shape checkers
    shapes,         \* what each shape checker returned for test_hand
    pc,             \* "input", "analyzed" (hand); "dealt", "checked" (test_hand);
                    \* "typed", "reported" (hand_str); "drawn", "parsed" (tiles_in);
                    \* "passed", "returned" (heap)
    swaps,          \* tiles exchanged, or keys typed, so far
    hand_str,       \* the notation handed to parse_hand / analyze_hand, a list of characters
    tiles_in,       \* a list of tile codes: rendered and parsed again, or passed to an engine operation
    parsed,         \* what parse_hand returned for hand_str
    result,         \* the dict analyze_hand returned for hand_str
    solver_called,  \* whether that call of analyze_hand reached find_winning_tiles
    raised,         \* what a direct call of find_winning_tiles on parsed raised
    heap,           \* the list objects of one engine call; heap[1] is the caller's list
    call,           \* the engine operation that was called on heap[1]
    hash_seed,      \* the string hash seed of the running interpreter
    earlier,        \* the dict an earlier analysis of hand_str returned
    expanded,       \* the lists generate_joker_combinations returned for tiles_in
    wins,           \* what is_winning_hand returned for test_hand
    frame,          \* the arguments of one call of _try_combinations
    slots,          \* HandPanel.tiles: the tile code of each slot, NoTile for an empty one
    last_op,        \* the last operation of the window and how it ended
    slots_before    \* HandPanel.tiles as they were when the last operation began

\* the variables of the notation, the report and the list objects
io_vars == <<hand_str, tiles_in, parsed, result, solver_called, raised>>
obj_vars == <<heap, call>>
\* the variables of repeated analyses, of the expander and the standard search,
\* and of the window
run_vars == <<hash_seed, earlier>>
engine_vars == <<expanded, wins, frame>>
gui_vars == <<slots, last_op, slots_before>>
more_vars == <<run_vars, engine_vars, gui_vars>>

vars == <<hand, winning_tiles, before, replaced, test_hand, shapes, pc, swaps,
          io_vars, obj_vars, more_vars>>

\* exchanges of one tile per run, and the number of tile faces offered for them
MaxSwaps == 1
PoolSize == 4

\* suit letters, numbered by their character order
M == 1
P == 2
S == 3
Z == 4
\* the wildcard "j"
J == 100

\* an empty slot of the hand panel (None)
NoTile == 0

\* nothing analysed twice, expanded, searched or clicked yet
IdleMore ==
    /\ hash_seed = 0
    /\ earlier = [error |-> "none"]
    /\ expanded = <<>>
    /\ wins = FALSE
    /\ frame = <<>>
    /\ slots = <<>>
    /\ last_op = "none"
    /\ slots_before = <<>>

Tile(num, suit) == 10 * num + suit
Num(tile) == tile \div 10
Suit(tile) == tile % 10

\* self.normal_tiles: 1s..9s, 1m..9m, 1p..9p, 1z..7z, in this order
normal_tiles ==
    [i \in 1..9 |-> Tile(i, S)] \o [i \in 1..9 |-> Tile(i, M)] \o
    [i \in 1..9 |-> Tile(i, P)] \o [i \in 1..7 |-> Tile(i, Z)]

\* self.all_tiles
all_tiles == normal_tiles \o <<J>>

\* terminal_honor_tiles with a slip in the table: 8s where 9s belongs
terminal_honor_tiles_slip ==
    << Tile(1, S), Tile(8, S), Tile(1, M), Tile(9, M), Tile(1, P), Tile(9, P),
       Tile(1, Z), Tile(2, Z), Tile(3, Z), Tile(4, Z), Tile(5, Z), Tile(6, Z),
       Tile(7, Z) >>

\* self.terminal_honor_tiles
terminal_honor_tiles ==
    << Tile(1, S), Tile(9, S), Tile(1, M), Tile(9, M), Tile(1, P), Tile(9, P),
       Tile(1, Z), Tile(2, Z), Tile(3, Z), Tile(4, Z), Tile(5, Z), Tile(6, Z),
       Tile(7, Z) >>

Range(seq) == {seq[i] : i \in DOMAIN seq}

\* sorted(list)
sorted(seq) == SortSeq(seq, LAMBDA a, b : a < b)

\* list.count(x)
count(seq, x) == Len(SelectSeq(seq, LAMBDA y : y = x))

\* list.remove(x): drops the first occurrence of x
remove(seq, x) ==
    LET k == CHOOSE i \in DOMAIN seq :
                 seq[i] = x /\ \A j \in 1..(i - 1) : seq[j] # x
    IN  [i \in 1..(Len(seq) - 1) |-> IF i < k THEN seq[i] ELSE seq[i + 1]]

\* _check_thirteen_orphans
check_thirteen_orphans(tiles) ==
    IF Len(tiles) # 14 THEN FALSE
    ELSE IF \E i \in DOMAIN tiles : tiles[i] \notin Range(terminal_honor_tiles)
    THEN FALSE
    ELSE LET cnt(k) == count(tiles, terminal_honor_tiles[k])
             idx == DOMAIN terminal_honor_tiles
             pair_count == Cardinality({k \in idx : cnt(k) = 2})
             single_count == Cardinality({k \in idx : cnt(k) = 1})
         IN  IF \E k \in idx : cnt(k) > 2 \/ cnt(k) = 0 THEN FALSE
             ELSE pair_count = 1 /\ single_count = 12

\* _check_seven_pairs counting the pairs in each tile's copies, so that four
\* copies are two pairs
check_seven_pairs_quads(tiles) ==
    IF Len(tiles) # 14 THEN FALSE
    ELSE LET faces == Range(tiles)
             RECURSIVE Pairs(_)
             Pairs(fs) == IF fs = {} THEN 0
                          ELSE LET t == CHOOSE x \in fs : TRUE
                               IN  (count(tiles, t) \div 2) + Pairs(fs \ {t})
         IN  Pairs(faces) = 7 /\ Len(tiles) = 14

\* _check_seven_pairs
check_seven_pairs(tiles) ==
    IF Len(tiles) # 14 THEN FALSE
    ELSE LET pairs == {t \in Range(tiles) : count(tiles, t) = 2}
         IN  Cardinality(pairs) = 7 /\ Len(tiles) = 14

\* _try_combinations, lines 232-235, with the rank bound one too low
can_start_sequence_short(first_tile) ==
    Suit(first_tile) # Z /\ Num(first_tile) < 7

\* _try_combinations, lines 232-235, with the honor test left out
can_start_sequence_honors(first_tile) == Num(first_tile) <= 7

\* _try_combinations, lines 232-235: a sequence can start at first_tile
can_start_sequence(first_tile) ==
    Suit(first_tile) # Z /\ Num(first_tile) <= 7

RECURSIVE try_combinations(_, _, _)
\* _try_combinations
try_combinations(remaining, groups, pair_count) ==
    IF remaining = <<>>
    THEN LET melds == SelectSeq(groups, LAMBDA g : Len(g) = 3)
             pairs == SelectSeq(groups, LAMBDA g : Len(g) = 2)
         IN  Len(melds) = 4 /\ Len(pairs) = 1
    ELSE IF Len(groups) > 5 THEN FALSE
    ELSE LET remaining_sorted == sorted(remaining)
             first_tile == remaining_sorted[1]
             n == count(remaining_sorted, first_tile)
             tile2 == Tile(Num(first_tile) + 1, Suit(first_tile))
             tile3 == Tile(Num(first_tile) + 2, Suit(first_tile))
         IN  \/ /\ pair_count = 0
                /\ n >= 2
                /\ try_combinations(
                       remove(remove(remaining_sorted, first_tile), first_tile),
                       Append(groups, <<first_tile, first_tile>>), 1)
             \/ /\ n >= 3
                /\ try_combinations(
                       remove(remove(remove(remaining_sorted, first_tile),
                                     first_tile), first_tile),
                       Append(groups, <<first_tile, first_tile, first_tile>>),
                       pair_count)
             \/ /\ can_start_sequence(first_tile)
                /\ tile2 \in Range(remaining_sorted)
                /\ tile3 \in Range(remaining_sorted)
                /\ try_combinations(
                       remove(remove(remove(remaining_sorted, first_tile),
                                     tile2), tile3),
                       Append(groups, <<first_tile, tile2, tile3>>),
                       pair_count)

\* _check_standard_win
check_standard_win(tiles) == try_combinations(tiles, <<>>, 0)

\* the test "standard or seven pairs or thirteen orphans" of is_winning_hand
any_shape(tiles) ==
    \/ check_standard_win(tiles)
    \/ check_seven_pairs(tiles)
    \/ check_thirteen_orphans(tiles)

\* generate_joker_combinations, lines 75-84: the tiles that are kept and the
\* number of wildcards that are replaced
base_hand(h) == SelectSeq(h, LAMBDA t : t # J)
joker_count_uncapped(h) == count(h, J)
joker_count(h) == IF count(h, J) > 4 THEN 4 ELSE count(h, J)

RECURSIVE some_combination(_, _)
\* is_winning_hand's loop over generate_joker_combinations: the product of
\* normal_tiles, repeat = k, in product order, each new_hand sorted, the loop
\* returning at the first combination a checker accepts
some_combination(new_hand, k) ==
    IF k = 0 THEN LET combo == sorted(new_hand) IN any_shape(combo)
    ELSE \E i \in DOMAIN normal_tiles :
             some_combination(Append(new_hand, normal_tiles[i]), k - 1)

\* is_winning_hand with the seven-pairs checker left out of lines 258-260
is_winning_hand_no_pairs(tiles) ==
    IF Len(tiles) # 14 THEN FALSE
    ELSE IF J \notin Range(tiles)
    THEN check_standard_win(tiles) \/ check_thirteen_orphans(tiles)
    ELSE some_combination(base_hand(tiles), joker_count(tiles))

\* is_winning_hand
is_winning_hand(tiles) ==
    IF Len(tiles) # 14 THEN FALSE
    ELSE IF J \notin Range(tiles) THEN any_shape(tiles)
    ELSE some_combination(base_hand(tiles), joker_count(tiles))

\* find_winning_tiles skipping a tile held 3 times already
find_winning_tiles_limit3(h) ==
    {all_tiles[i] : i \in
        {k \in DOMAIN all_tiles :
            /\ ~(all_tiles[k] # J /\ count(h, all_tiles[k]) >= 3)
            /\ is_winning_hand(Append(h, all_tiles[k]))}}

\* find_winning_tiles trying normal_tiles instead of all_tiles
find_winning_tiles_concrete(h) ==
    {normal_tiles[i] : i \in
        {k \in DOMAIN normal_tiles :
            /\ ~(normal_tiles[k] # J /\ count(h, normal_tiles[k]) >= 4)
            /\ is_winning_hand(Append(h, normal_tiles[k]))}}

\* find_winning_tiles, lines 314-319: the tiles for which test_hand is built
\* and handed to is_winning_hand
tested_tiles(h) ==
    {all_tiles[i] : i \in
        {k \in DOMAIN all_tiles :
            ~(all_tiles[k] # J /\ count(h, all_tiles[k]) >= 4)}}

\* find_winning_tiles without the test of line 316
find_winning_tiles_no_limit(h) ==
    {all_tiles[i] : i \in
        {k \in DOMAIN all_tiles : is_winning_hand(Append(h, all_tiles[k]))}}

\* find_winning_tiles, lines 311-323 (the hand has 13 tiles)
find_winning_tiles(h) ==
    {all_tiles[i] : i \in
        {k \in DOMAIN all_tiles :
            /\ ~(all_tiles[k] # J /\ count(h, all_tiles[k]) >= 4)
            /\ is_winning_hand(Append(h, all_tiles[k]))}}


(***************************************************************************)
(* Inputs.                                                                 *)
(***************************************************************************)
Hand(nums, suit) == [i \in DOMAIN nums |-> Tile(nums[i], suit)]

\* the tile faces offered for an exchange: the first PoolSize tile buttons
Pool == {normal_tiles[i] : i \in 1..PoolSize}

\* 1112345678999 in one numbered suit
ScenarioA(suit) == Hand(<<1, 1, 1, 2, 3, 4, 5, 6, 7, 8, 9, 9, 9>>, suit)

\* one copy of each terminal and honor tile
ScenarioB ==
    Hand(<<1, 9>>, S) \o Hand(<<1, 9>>, M) \o Hand(<<1, 9>>, P)
    \o Hand(<<1, 2, 3, 4, 5, 6, 7>>, Z)

\* six pairs and a single tile, at non-adjacent ranks of two suits
ScenarioC ==
    { Hand(<<1, 1, 3, 3, 5, 5>>, S) \o Hand(<<1, 1, 3, 3, 5, 5, 7>>, M),
      Hand(<<1, 1, 3, 3, 5, 5, 7, 7, 9, 9>>, S) \o Hand(<<1, 1, 3>>, M),
      Hand(<<2, 2, 5, 5, 8>>, P) \o Hand(<<1, 1, 4, 4, 6, 6, 9, 9>>, S) }

\* 13-tile hands of test_mahjong.py and demo.py
TestHands ==
    { Hand(<<1, 2, 3, 4, 5, 6, 7, 8>>, M) \o Hand(<<1, 1, 2, 3, 4>>, P),
      Hand(<<1, 2, 3>>, M) \o Hand(<<4, 5, 6>>, P) \o Hand(<<7, 8, 9>>, S)
          \o Hand(<<1, 1, 1, 2>>, Z),
      Hand(<<1, 4, 7>>, M) \o Hand(<<2, 5, 8>>, P) \o Hand(<<3, 6, 9>>, S)
          \o Hand(<<1, 2, 3, 4>>, Z) }

\* four copies of 1s and three triplets: only a fifth 1s would complete it
FourOfAKind == Hand(<<1, 1, 1, 1>>, S) \o Hand(<<2, 2, 2, 3, 3, 3, 4, 4, 4>>, Z)

ExampleHands ==
    {ScenarioA(s) : s \in {S, M, P}} \cup {ScenarioB} \cup ScenarioC
    \cup TestHands \cup {FourOfAKind}

\* the list with the tile in slot i replaced by t
Replace(seq, i, t) == [seq EXCEPT ![i] = t]

\* no concrete tile more than 4 times (analyze_hand's over_limit check)
WithinLimit(seq) == \A i \in DOMAIN seq : seq[i] = J \/ count(seq, seq[i]) <= 4

(***************************************************************************)
(* Analysis of 13-tile hands.                                              *)
(***************************************************************************)
Init ==
    /\ hand \in {sorted(h) : h \in ExampleHands}
    /\ winning_tiles = {}
    /\ before = {}
    /\ replaced = FALSE
    /\ test_hand = <<>>
    /\ shapes = [standard |-> FALSE, seven_pairs |-> FALSE,
                 thirteen_orphans |-> FALSE]
    /\ pc = "input"
    /\ swaps = 0
    /\ hand_str = <<>>
    /\ tiles_in = <<>>
    /\ parsed = <<>>
    /\ result = [error |-> "none"]
    /\ solver_called = FALSE
    /\ raised = "none"
    /\ heap = <<>>
    /\ call = "none"
    /\ IdleMore

\* analyze_hand, lines 356 and 380-383: the validated hand goes to
\* find_winning_tiles
FindWinningTiles ==
    /\ pc = "input"
    /\ Len(hand) = 13
    /\ winning_tiles' = find_winning_tiles(hand)
    /\ pc' = "analyzed"
    /\ UNCHANGED <<hand, before, replaced, test_hand, shapes, swaps>>
    /\ UNCHANGED <<io_vars, obj_vars, more_vars>>

\* the user clicks slot i of the hand panel, picks tile t in the selector and
\* asks for a new analysis; parse_hand sorts the tiles
ExchangeTile(i, t) ==
    /\ swaps < MaxSwaps
    /\ hand[i] # t
    /\ WithinLimit(Replace(hand, i, t))
    /\ hand' = sorted(Replace(hand, i, t))
    /\ winning_tiles' = {}
    /\ pc' = "input"
    /\ swaps' = swaps + 1
    /\ UNCHANGED <<before, replaced, test_hand, shapes>>
    /\ UNCHANGED <<io_vars, obj_vars, more_vars>>

Next ==
    \/ FindWinningTiles
    \/ \E i \in DOMAIN hand, t \in Pool : pc = "analyzed" /\ ExchangeTile(i, t)

Spec == Init /\ [][Next]_vars

(***************************************************************************)
(* Claims about the analysis of 13-tile hands.                             *)
(***************************************************************************)
Concrete == Range(normal_tiles)

\* the tiles of a numbered suit or of the honor family
SuitTiles(suit) == {Tile(r, suit) : r \in 1..9}
Honors == {Tile(r, Z) : r \in 1..7}
TerminalsAndHonors ==
    {Tile(r, suit) : r \in {1, 9}, suit \in {S, M, P}} \cup Honors

\* C1: for a wildcard-free 13-tile hand and every concrete tile t the hand
\* holds fewer than 4 times, t is a reported winning tile if and only if one
\* of the three shape checkers accepts the hand plus t.
C1_WinningIffShape ==
    (pc = "analyzed" /\ J \notin Range(hand)) =>
        \A t \in Concrete :
            count(hand, t) < 4 =>
                (t \in winning_tiles <=>
                    \/ check_standard_win(Append(hand, t))
                    \/ check_seven_pairs(Append(hand, t))
                    \/ check_thirteen_orphans(Append(hand, t)))

\* C1 witness: an analysed wildcard-free hand for which some concrete tile
\* wins, another does not, and a third is held 4 times already.
C1_Witness ==
    /\ pc = "analyzed"
    /\ J \notin Range(hand)
    /\ \E t \in Concrete : count(hand, t) < 4 /\ t \in winning_tiles
    /\ \E t \in Concrete : count(hand, t) < 4 /\ t \notin winning_tiles
    /\ \E t \in Concrete : count(hand, t) = 4

\* one of the three shape checkers accepts the 14 tiles
SomeShape(seq) ==
    \/ check_standard_win(seq)
    \/ check_seven_pairs(seq)
    \/ check_thirteen_orphans(seq)

\* C2: the reported winning tiles are concrete tiles only, never the
\* wildcard.
C2_OnlyConcreteTilesWin ==
    pc = "analyzed" => winning_tiles \subseteq Concrete

\* C2, amended: for a hand with or without wildcards the reported winning
\* tiles are among the 34 concrete tiles and the wildcard; for a
\* wildcard-free hand the wildcard is reported exactly when some concrete
\* tile, held 4 times already or not, completes a winning shape.
C2_WildcardReported ==
    pc = "analyzed" =>
        /\ winning_tiles \subseteq Concrete \cup {J}
        /\ J \notin Range(hand) =>
              (J \in winning_tiles <=>
                  \E t \in Concrete : SomeShape(Append(hand, t)))

\* C2 witness: an analysed wildcard-free hand whose only reported winning
\* tile is the wildcard, standing for a fifth copy of a tile.
C2_Witness ==
    /\ pc = "analyzed"
    /\ J \notin Range(hand)
    /\ winning_tiles = {J}
    /\ \E t \in Concrete : count(hand, t) = 4 /\ SomeShape(Append(hand, t))

\* C3: for 1112345678999 of one numbered suit the hand is waiting and the
\* winning tiles are exactly the nine ranks of that suit.
C3_ScenarioA ==
    \A suit \in {S, M, P} :
        (pc = "analyzed" /\ hand = sorted(ScenarioA(suit))) =>
            (winning_tiles # {} /\ winning_tiles = SuitTiles(suit))

\* C3, amended: for 1112345678999 of one numbered suit the hand is waiting
\* and the winning tiles are exactly the nine ranks of that suit and the
\* wildcard.
C3_ScenarioAWithWildcard ==
    \A suit \in {S, M, P} :
        (pc = "analyzed" /\ hand = sorted(ScenarioA(suit))) =>
            (winning_tiles # {} /\ winning_tiles = SuitTiles(suit) \cup {J})

\* C3 witness: 1112345678999 of each suit has been analysed with its nine
\* ranks reported (here: of the suit s).
C3_Witness ==
    /\ pc = "analyzed"
    /\ hand = sorted(ScenarioA(S))
    /\ SuitTiles(S) \subseteq winning_tiles

\* C4: for one copy of each of the 13 terminal and honor tiles the winning
\* tiles are exactly those 13 tiles, each a thirteen-orphans win.
C4_ScenarioB ==
    (pc = "analyzed" /\ hand = sorted(ScenarioB)) =>
        /\ winning_tiles = TerminalsAndHonors
        /\ \A t \in winning_tiles : check_thirteen_orphans(Append(hand, t))

\* C4, amended: for one copy of each of the 13 terminal and honor tiles the
\* winning tiles are exactly those 13 tiles and the wildcard, each of the 13
\* a thirteen-orphans win.
C4_ScenarioBWithWildcard ==
    (pc = "analyzed" /\ hand = sorted(ScenarioB)) =>
        /\ winning_tiles = TerminalsAndHonors \cup {J}
        /\ \A t \in winning_tiles \ {J} :
              check_thirteen_orphans(Append(hand, t))

\* C4 witness: the hand of the 13 terminal and honor tiles has been analysed
\* and reports a thirteen-orphans win.
C4_Witness ==
    /\ pc = "analyzed"
    /\ hand = sorted(ScenarioB)
    /\ \E t \in winning_tiles \ {J} : check_thirteen_orphans(Append(hand, t))

\* six pairs and one other tile (a single tile or the wildcard), the seven
\* faces in numbered suits, in two suits, no two of them at adjacent ranks
PairedFaces(h) == {t \in Range(h) : count(h, t) = 2}
SingleFaces(h) == {t \in Range(h) : count(h, t) = 1}
NonAdjacent(faces) ==
    /\ faces \subseteq Concrete \ Honors
    /\ Cardinality({Suit(t) : t \in faces}) = 2
    /\ \A a, b \in faces : (a # b /\ Suit(a) = Suit(b)) => Num(a) - Num(b) \notin {-1, 1}
IsScenarioC(h) ==
    /\ Len(h) = 13
    /\ Cardinality(PairedFaces(h)) = 6
    /\ Cardinality(SingleFaces(h)) = 1
    /\ NonAdjacent(PairedFaces(h) \cup SingleFaces(h))
IsScenarioD(h) ==
    /\ Len(h) = 13
    /\ Cardinality(PairedFaces(h)) = 6
    /\ SingleFaces(h) = {J}
    /\ NonAdjacent(PairedFaces(h))

\* C6: for a wildcard-free hand of six pairs and a single tile at non-adjacent
\* ranks of two suits the winning tiles are exactly the single tile, which
\* wins as seven pairs and in no other shape.
C6_ScenarioC ==
    (pc = "analyzed" /\ IsScenarioC(hand)) =>
        /\ winning_tiles = SingleFaces(hand)
        /\ \A t \in winning_tiles :
              /\ check_seven_pairs(Append(hand, t))
              /\ ~check_standard_win(Append(hand, t))
              /\ ~check_thirteen_orphans(Append(hand, t))

\* C6, amended: for such a hand the winning tiles are exactly the single
\* tile and the wildcard, and the single tile wins as seven pairs and in no
\* other shape.
C6_ScenarioCWithWildcard ==
    (pc = "analyzed" /\ IsScenarioC(hand)) =>
        /\ winning_tiles = SingleFaces(hand) \cup {J}
        /\ \A t \in SingleFaces(hand) :
              /\ check_seven_pairs(Append(hand, t))
              /\ ~check_standard_win(Append(hand, t))
              /\ ~check_thirteen_orphans(Append(hand, t))

\* C6 witness: an analysed hand of six pairs and a single tile at
\* non-adjacent ranks of two suits, with the single tile reported.
C6_Witness ==
    /\ pc = "analyzed"
    /\ IsScenarioC(hand)
    /\ SingleFaces(hand) \subseteq winning_tiles

(***************************************************************************)
(* A wildcard takes the place of one tile of an analysed hand.             *)
(***************************************************************************)
\* the user clicks slot i of the hand panel, picks the wildcard in the
\* selector and asks for a new analysis
ReplaceWithJoker(i) ==
    /\ pc = "analyzed"
    /\ ~replaced
    /\ hand[i] # J
    /\ hand' = sorted(Replace(hand, i, J))
    /\ before' = winning_tiles
    /\ replaced' = TRUE
    /\ winning_tiles' = {}
    /\ pc' = "input"
    /\ UNCHANGED <<test_hand, shapes, swaps>>
    /\ UNCHANGED <<io_vars, obj_vars, more_vars>>

NextWild ==
    \/ FindWinningTiles
    \/ \E i \in DOMAIN hand : ReplaceWithJoker(i)

SpecWild == Init /\ [][NextWild]_vars

\* a hand that holds three wildcards already
ThreeJokers ==
    Hand(<<1>>, S) \o Hand(<<2, 2, 2, 3, 3, 3, 4, 4, 4>>, Z) \o <<J, J, J>>

InitMono ==
    /\ hand \in {sorted(h) : h \in ExampleHands \cup {ThreeJokers}}
    /\ winning_tiles = {}
    /\ before = {}
    /\ replaced = FALSE
    /\ test_hand = <<>>
    /\ shapes = [standard |-> FALSE, seven_pairs |-> FALSE,
                 thirteen_orphans |-> FALSE]
    /\ pc = "input"
    /\ swaps = 0
    /\ hand_str = <<>>
    /\ tiles_in = <<>>
    /\ parsed = <<>>
    /\ result = [error |-> "none"]
    /\ solver_called = FALSE
    /\ raised = "none"
    /\ heap = <<>>
    /\ call = "none"
    /\ IdleMore

SpecMono == InitMono /\ [][NextWild]_vars

\* C5: for six pairs at non-adjacent ranks of two suits plus one wildcard
\* the winning tiles are exactly the 28 concrete tiles that are not one of
\* the six paired tiles, each winning as seven pairs.
C5_ScenarioD ==
    (pc = "analyzed" /\ IsScenarioD(hand)) =>
        /\ winning_tiles = Concrete \ PairedFaces(hand)
        /\ Cardinality(winning_tiles) = 28

\* C5, amended: for such a hand the winning tiles are exactly the 28
\* concrete tiles that are not one of the six paired tiles and the wildcard,
\* each of the 28 winning as seven pairs with the wildcard standing for the
\* same tile.
C5_ScenarioDWithWildcard ==
    (pc = "analyzed" /\ IsScenarioD(hand)) =>
        /\ winning_tiles = (Concrete \ PairedFaces(hand)) \cup {J}
        /\ Cardinality(winning_tiles \ {J}) = 28
        /\ \A t \in winning_tiles \ {J} :
              check_seven_pairs(base_hand(hand) \o <<t, t>>)

\* C5 witness: a hand of six pairs and one wildcard, made from six pairs and
\* a single tile by replacing the single tile, has been analysed and reports
\* winning tiles.
C5_Witness ==
    /\ pc = "analyzed"
    /\ replaced
    /\ IsScenarioD(hand)
    /\ winning_tiles # {}

\* C7: replacing one concrete tile of a hand by a wildcard never makes the
\* set of winning tiles smaller.
C7_WildcardMonotone ==
    (pc = "analyzed" /\ replaced) =>
        Cardinality(winning_tiles) >= Cardinality(before)

(***************************************************************************)
(* The three shape checkers on wildcard-free 14-tile lists.                *)
(***************************************************************************)
\* the two winning hands of simple_test.py, a thirteen-orphans hand, and
\* hands that are close to a shape without having it
ExampleWins ==
    { Hand(<<1, 1, 1, 2, 3, 4, 5, 5, 5, 6, 7, 8, 9, 9>>, M),
      Hand(<<1, 1, 2, 2, 3, 3, 4, 4, 5, 5, 6, 6, 7, 7>>, M),
      Hand(<<1, 1, 3, 3, 5, 5, 7, 7, 9, 9>>, S) \o Hand(<<1, 1, 4, 4>>, Z),
      ScenarioB \o Hand(<<1>>, S),
      Hand(<<1, 2, 3, 7, 8, 9>>, S) \o Hand(<<1, 1, 1>>, M)
          \o Hand(<<2, 2, 2, 5, 5>>, Z) }
NearMisses ==
    { Hand(<<1, 1, 1, 1, 2, 2, 5, 5>>, S) \o Hand(<<1, 1, 3, 3, 6, 6>>, Z),
      Hand(<<1, 2, 3, 4, 5, 6, 7, 7>>, Z) \o Hand(<<1, 1, 1, 3, 3, 3>>, S),
      Hand(<<1, 1, 3, 5, 5, 7, 7, 9, 9>>, S) \o Hand(<<1, 1, 4, 4>>, Z)
          \o Hand(<<2>>, P),
      ScenarioB \o Hand(<<5>>, M),
      Hand(<<8, 9>>, S) \o Hand(<<1, 8, 9>>, M) \o Hand(<<1, 2, 3, 4>>, P)
          \o Hand(<<2, 2, 2, 4, 4>>, S) }

InitShapes ==
    /\ test_hand \in ExampleWins \cup NearMisses
    /\ shapes = [standard |-> FALSE, seven_pairs |-> FALSE,
                 thirteen_orphans |-> FALSE]
    /\ pc = "dealt"
    /\ swaps = 0
    /\ hand = <<>>
    /\ winning_tiles = {}
    /\ before = {}
    /\ replaced = FALSE
    /\ hand_str = <<>>
    /\ tiles_in = <<>>
    /\ parsed = <<>>
    /\ result = [error |-> "none"]
    /\ solver_called = FALSE
    /\ raised = "none"
    /\ heap = <<>>
    /\ call = "none"
    /\ IdleMore

\* is_winning_hand, lines 258-260: the three checkers on a 14-tile list
CheckShapes ==
    /\ pc = "dealt"
    /\ shapes' = [standard |-> check_standard_win(test_hand),
                  seven_pairs |-> check_seven_pairs(test_hand),
                  thirteen_orphans |-> check_thirteen_orphans(test_hand)]
    /\ pc' = "checked"
    /\ UNCHANGED <<hand, winning_tiles, before, replaced, test_hand, swaps>>
    /\ UNCHANGED <<io_vars, obj_vars, more_vars>>

\* another list of 14 tiles: slot i holds tile t instead
ExchangeInTestHand(i, t) ==
    /\ pc = "checked"
    /\ swaps < MaxSwaps
    /\ test_hand[i] # t
    /\ WithinLimit(Replace(test_hand, i, t))
    /\ test_hand' = Replace(test_hand, i, t)
    /\ pc' = "dealt"
    /\ swaps' = swaps + 1
    /\ UNCHANGED <<hand, winning_tiles, before, replaced, shapes>>
    /\ UNCHANGED <<io_vars, obj_vars, more_vars>>

NextShapes ==
    \/ CheckShapes
    \/ \E i \in DOMAIN test_hand, t \in Pool : ExchangeInTestHand(i, t)

SpecShapes == InitShapes /\ [][NextShapes]_vars

\* the number of copies of each concrete tile in a list
Counts(seq) == [t \in Concrete |-> count(seq, t)]

\* a triplet is three copies of one tile; a sequence is three tiles of one
\* numbered suit at ranks r, r + 1, r + 2 with r + 2 <= 9
Triplets == {<<t, t, t>> : t \in Concrete}
Sequences == {<<Tile(r, suit), Tile(r + 1, suit), Tile(r + 2, suit)>> :
                 r \in 1..7, suit \in {S, M, P}}
Fits(cnt, meld, k) == \A t \in Range(meld) : cnt[t] >= k * count(meld, t)
Take(cnt, meld, k) == [t \in Concrete |-> cnt[t] - k * count(meld, t)]

RECURSIVE Covered(_, _, _)
\* the counts cnt are exactly n melds, each one of the set melds
Covered(cnt, melds, n) ==
    IF n = 0 THEN \A t \in Concrete : cnt[t] = 0
    ELSE IF melds = {} THEN FALSE
    ELSE LET meld == CHOOSE m \in melds : TRUE
         IN  \E k \in 0..n :
                 /\ Fits(cnt, meld, k)
                 /\ Covered(IF k = 0 THEN cnt ELSE Take(cnt, meld, k),
                            melds \ {meld}, n - k)

\* the list is one pair and four melds
HasStandardPartition(seq) ==
    \E p \in Range(seq) :
        /\ count(seq, p) >= 2
        /\ LET cnt == [Counts(seq) EXCEPT ![p] = @ - 2]
           IN  Covered(cnt,
                       {m \in Triplets \cup Sequences : Fits(cnt, m, 1)}, 4)

\* C8: on a wildcard-free 14-tile list the standard-shape checker returns
\* true if and only if the list splits into one pair and four melds, each a
\* triplet or a sequence of three consecutive ranks of one numbered suit.
C8_StandardIffPartition ==
    pc = "checked" =>
        (shapes.standard <=> HasStandardPartition(test_hand))

\* C8 witness: a checked list, reached by an exchange, that the standard
\* checker accepts and that is not seven pairs.
C8_Witness ==
    /\ pc = "checked"
    /\ swaps > 0
    /\ shapes.standard
    /\ ~shapes.seven_pairs

\* C9: on a wildcard-free 14-tile list the seven-pairs checker returns true
\* if and only if exactly seven distinct tiles occur, each exactly twice.
C9_SevenPairsIffSevenTwice ==
    pc = "checked" =>
        (shapes.seven_pairs <=>
            /\ Cardinality(Range(test_hand)) = 7
            /\ \A t \in Range(test_hand) : Counts(test_hand)[t] = 2)

\* C9 witness: a checked list of seven pairs that has no standard split.
C9_Witness ==
    /\ pc = "checked"
    /\ shapes.seven_pairs
    /\ ~shapes.standard

\* C10: on a wildcard-free 14-tile list the thirteen-orphans checker returns
\* true if and only if every one of the 13 terminal and honor tiles is there,
\* twelve of them once and one twice, and no other tile is.
C10_OrphansIffAllThirteen ==
    pc = "checked" =>
        (shapes.thirteen_orphans <=>
            /\ Range(test_hand) = TerminalsAndHonors
            /\ Cardinality({t \in TerminalsAndHonors :
                               Counts(test_hand)[t] = 1}) = 12
            /\ Cardinality({t \in TerminalsAndHonors :
                               Counts(test_hand)[t] = 2}) = 1)

\* C10 witness: a checked list the thirteen-orphans checker accepts.
C10_Witness ==
    /\ pc = "checked"
    /\ shapes.thirteen_orphans

(***************************************************************************)
(* The notation of a hand: parse_hand and the renderings of a tile list.   *)
(* A string is modelled by the list of its characters.                     *)
(***************************************************************************)
\* the most tiles of a list that is rendered and parsed again
MaxTiles == 3

\* the characters \d matches (ASCII), by value, and the letters of [smpz]
DigitChars == <<"0", "1", "2", "3", "4", "5", "6", "7", "8", "9">>
Digits == Range(DigitChars)
FamilyLetters == {"s", "m", "p", "z"}
DigitValue(c) == CHOOSE d \in 0..9 : DigitChars[d + 1] = c
SuitOf(c) == CASE c = "m" -> M [] c = "p" -> P [] c = "s" -> S [] c = "z" -> Z
SuitChar(suit) == CHOOSE c \in FamilyLetters : SuitOf(c) = suit

RECURSIVE run_end(_, _)
\* \d+ is greedy: the last index of the run of digits that starts at i
run_end(str, i) ==
    IF i < Len(str) /\ str[i + 1] \in Digits THEN run_end(str, i + 1) ELSE i

RECURSIVE findall(_, _)
\* re.findall(r'(\d+)([smpz])', str) from index i on: the matches, left to
\* right and not overlapping; a run of digits that no family letter follows
\* matches nowhere (every shorter run in it is followed by a digit or by the
\* same character), and any other character is skipped
findall(str, i) ==
    IF i > Len(str) THEN <<>>
    ELSE IF str[i] \in Digits
    THEN LET e == run_end(str, i)
         IN  IF e < Len(str) /\ str[e + 1] \in FamilyLetters
             THEN <<[numbers |-> SubSeq(str, i, e), suit |-> str[e + 1]]>>
                  \o findall(str, e + 2)
             ELSE findall(str, i + 1)
    ELSE findall(str, i + 1)

RECURSIVE tiles_of(_)
\* parse_hand, lines 61-63: one tile per digit of each match
tiles_of(matches) ==
    IF matches = <<>> THEN <<>>
    ELSE LET numbers == Head(matches).numbers
             suit == Head(matches).suit
         IN  [k \in DOMAIN numbers |->
                 Tile(DigitValue(numbers[k]), SuitOf(suit))]
             \o tiles_of(Tail(matches))

\* parse_hand as the engine without wildcards has it: "j" is skipped
parse_hand_no_joker(str) ==
    sorted(tiles_of(findall(SelectSeq(str, LAMBDA c : c # "j"), 1)))

\* parse_hand
parse_hand(str) ==
    LET joker_count_str == count(str, "j")
        hand_str_no_joker == SelectSeq(str, LAMBDA c : c # "j")
        matches == findall(hand_str_no_joker, 1)
    IN  sorted(tiles_of(matches) \o [k \in 1..joker_count_str |-> J])

\* the code of a tile: f"{i}s" and 'j'
tile_code(tile) ==
    IF tile = J THEN <<"j">>
    ELSE <<DigitChars[Num(tile) + 1], SuitChar(Suit(tile))>>

RECURSIVE join(_, _)
\* sep.join(codes of the tiles)
join(tiles, sep) ==
    IF tiles = <<>> THEN <<>>
    ELSE IF Len(tiles) = 1 THEN tile_code(tiles[1])
    ELSE tile_code(tiles[1]) \o sep \o join(Tail(tiles), sep)

\* ''.join(hand) of the window and ' '.join(hand) of the printed report
Separators == {<<>>, <<" ">>}

\* the tiles the rendered lists are made of
TilePool == {Tile(1, M), Tile(2, M), Tile(1, P), Tile(9, S), Tile(7, Z), J}

InitParse ==
    /\ tiles_in \in UNION {[1..n -> TilePool] : n \in 0..MaxTiles}
    /\ pc = "drawn"
    /\ hand_str = <<>>
    /\ parsed = <<>>
    /\ result = [error |-> "none"]
    /\ solver_called = FALSE
    /\ raised = "none"
    /\ hand = <<>>
    /\ winning_tiles = {}
    /\ before = {}
    /\ replaced = FALSE
    /\ test_hand = <<>>
    /\ shapes = [standard |-> FALSE, seven_pairs |-> FALSE,
                 thirteen_orphans |-> FALSE]
    /\ swaps = 0
    /\ heap = <<>>
    /\ call = "none"
    /\ IdleMore

\* a list of tiles is rendered, and the rendering is parsed
RenderAndParse(sep) ==
    /\ pc = "drawn"
    /\ hand_str' = join(tiles_in, sep)
    /\ parsed' = parse_hand(hand_str')
    /\ pc' = "parsed"
    /\ UNCHANGED <<hand, winning_tiles, before, replaced, test_hand, shapes,
                   swaps, tiles_in, result, solver_called, raised, obj_vars,
                   more_vars>>

NextParse == \E sep \in Separators : RenderAndParse(sep)

SpecParse == InitParse /\ [][NextParse]_vars

\* C15: parsing the rendering of a list of valid tiles (its codes
\* concatenated or joined by spaces, in any order, wildcards allowed) returns
\* the same multiset of tiles.
C15_ParseRenderRoundTrip ==
    pc = "parsed" =>
        /\ Len(parsed) = Len(tiles_in)
        /\ \A t \in Range(tiles_in) \cup Range(parsed) :
              count(parsed, t) = count(tiles_in, t)

\* C15 witness: a list with a wildcard and a repeated tile, not in sorted
\* order, joined by spaces, has been parsed.
C15_Witness ==
    /\ pc = "parsed"
    /\ " " \in Range(hand_str)
    /\ J \in Range(tiles_in)
    /\ \E t \in Range(tiles_in) : count(tiles_in, t) > 1
    /\ tiles_in # sorted(tiles_in)

\* the family of a tile; the wildcard is a family of its own
Family(tile) == IF tile = J THEN 0 ELSE Suit(tile)

\* family first, rank within the family, wildcards last
FamilyThenRank(seq) ==
    \A i, j \in DOMAIN seq :
        i < j =>
            /\ seq[i] = J => seq[j] = J
            /\ Family(seq[i]) = Family(seq[j]) =>
                  /\ Num(seq[i]) <= Num(seq[j])
                  /\ \A k \in i..j : Family(seq[k]) = Family(seq[i])

\* C16: the list parse_hand returns is in the canonical order: by family
\* first, by rank within a family, every wildcard after every concrete tile.
C16_ParsedFamilyThenRank ==
    pc = "parsed" => FamilyThenRank(parsed)

(***************************************************************************)
(* analyze_hand: the notation is parsed, validated, solved and reported.   *)
(***************************************************************************)
\* the chain of get_winning_type without its thirteen-orphans branch
concrete_type_no_orphans(tiles) ==
    IF check_seven_pairs(tiles) THEN "seven_pairs"
    ELSE IF check_standard_win(tiles) THEN "standard"
    ELSE "none"

\* get_winning_type, lines 282-289 and 295-301: the name of the first shape
\* of the chain that accepts the 14 tiles; "none" is the name for no shape
concrete_type(tiles) ==
    IF check_thirteen_orphans(tiles) THEN "thirteen_orphans"
    ELSE IF check_seven_pairs(tiles) THEN "seven_pairs"
    ELSE IF check_standard_win(tiles) THEN "standard"
    ELSE "none"

\* the names get_winning_type returns for a hand with wildcards
joker_type(name) ==
    CASE name = "thirteen_orphans" -> "thirteen_orphans_joker"
      [] name = "seven_pairs" -> "seven_pairs_joker"
      [] name = "standard" -> "standard_joker"
      [] OTHER -> "none"

RECURSIVE first_type(_, _)
\* get_winning_type's loop over generate_joker_combinations: the type of the
\* first combination, in product order, that a checker accepts
first_type(new_hand, k) ==
    IF k = 0 THEN LET combo == sorted(new_hand) IN concrete_type(combo)
    ELSE LET hits == {i \in DOMAIN normal_tiles :
                         first_type(Append(new_hand, normal_tiles[i]), k - 1)
                             # "none"}
         IN  IF hits = {} THEN "none"
             ELSE LET i == CHOOSE h \in hits : \A g \in hits : h <= g
                  IN  first_type(Append(new_hand, normal_tiles[i]), k - 1)

\* get_winning_type
get_winning_type(tiles) ==
    IF Len(tiles) # 14 THEN "none"
    ELSE IF J \notin Range(tiles) THEN concrete_type(tiles)
    ELSE joker_type(first_type(base_hand(tiles), joker_count(tiles)))

\* find_winning_tiles with its guard, lines 308-309: a hand that is not of
\* 13 tiles raises ValueError
find_winning_tiles_checked(h) ==
    IF Len(h) # 13 THEN [raised |-> "ValueError", value |-> {}]
    ELSE [raised |-> "none", value |-> find_winning_tiles(h)]

\* analyze_hand, lines 339 and 347-349
invalid_tiles(h) == SelectSeq(h, LAMBDA t : t \notin Range(all_tiles))
over_limit(h) == {t \in Range(h) : t # J /\ count(h, t) > 4}

\* analyze_hand's validation testing for 14 tiles
validate_count_14(h) ==
    IF Len(h) # 14 THEN "tile_count"
    ELSE IF invalid_tiles(h) # <<>> THEN "invalid_tiles"
    ELSE IF over_limit(h) # {} THEN "over_limit"
    ELSE "ok"

\* analyze_hand's validation without the test of the tile count
validate_no_count(h) ==
    IF invalid_tiles(h) # <<>> THEN "invalid_tiles"
    ELSE IF over_limit(h) # {} THEN "over_limit"
    ELSE "ok"

\* analyze_hand's validation without the test of the tile codes
validate_no_codes(h) ==
    IF Len(h) # 13 THEN "tile_count"
    ELSE IF over_limit(h) # {} THEN "over_limit"
    ELSE "ok"

\* analyze_hand's validation with the copy limit at 5
validate_limit_5(h) ==
    IF Len(h) # 13 THEN "tile_count"
    ELSE IF invalid_tiles(h) # <<>> THEN "invalid_tiles"
    ELSE IF {t \in Range(h) : t # J /\ count(h, t) > 5} # {} THEN "over_limit"
    ELSE "ok"

\* analyze_hand, lines 332-354: the failure the hand is returned with, in the
\* order of the tests, or "ok"
validate(h) ==
    IF Len(h) # 13 THEN "tile_count"
    ELSE IF invalid_tiles(h) # <<>> THEN "invalid_tiles"
    ELSE IF over_limit(h) # {} THEN "over_limit"
    ELSE "ok"

RECURSIVE list_of(_)
\* list(set)
list_of(set) ==
    IF set = {} THEN <<>>
    ELSE LET x == CHOOSE y \in set : TRUE IN <<x>> \o list_of(set \ {x})

\* the complete result counting the concrete winning tiles only
report_count_concrete(h, str, winning) ==
    [ hand |-> h,
      hand_str |-> str,
      tile_count |-> Len(h),
      suits_distribution |->
          [ s |-> Len(SelectSeq(h, LAMBDA t : t # J /\ Suit(t) = S)),
            m |-> Len(SelectSeq(h, LAMBDA t : t # J /\ Suit(t) = M)),
            p |-> Len(SelectSeq(h, LAMBDA t : t # J /\ Suit(t) = P)),
            z |-> Len(SelectSeq(h, LAMBDA t : t # J /\ Suit(t) = Z)),
            j |-> count(h, J) ],
      winning_tiles |-> sorted(list_of(winning)),
      winning_count |-> Cardinality(winning \ {J}),
      winning_types |->
          {get_winning_type(Append(h, tile)) : tile \in winning} \ {"none"},
      is_tingpai |-> Cardinality(winning) > 0,
      tile_frequency |-> [t \in Range(h) |-> count(h, t)],
      joker_count |-> count(h, J) ]

\* analyze_hand, lines 358-386: the complete result for the validated hand
\* and its winning tiles
report(h, str, winning) ==
    [ hand |-> h,
      hand_str |-> str,
      tile_count |-> Len(h),
      suits_distribution |->
          [ s |-> Len(SelectSeq(h, LAMBDA t : t # J /\ Suit(t) = S)),
            m |-> Len(SelectSeq(h, LAMBDA t : t # J /\ Suit(t) = M)),
            p |-> Len(SelectSeq(h, LAMBDA t : t # J /\ Suit(t) = P)),
            z |-> Len(SelectSeq(h, LAMBDA t : t # J /\ Suit(t) = Z)),
            j |-> count(h, J) ],
      winning_tiles |-> sorted(list_of(winning)),
      winning_count |-> Cardinality(winning),
      winning_types |->
          {get_winning_type(Append(h, tile)) : tile \in winning} \ {"none"},
      is_tingpai |-> Cardinality(winning) > 0,
      tile_frequency |-> [t \in Range(h) |-> count(h, t)],
      joker_count |-> count(h, J) ]

\* analyze_hand: the dict it returns (ret) and whether find_winning_tiles was
\* called (solver); an exception of the solver is caught, lines 388-392
analyze_hand_run(str) ==
    LET h == parse_hand(str)
        failure == validate(h)
    IN  IF failure # "ok"
        THEN [ret |-> [error |-> failure, hand |-> h], solver |-> FALSE]
        ELSE LET solved == find_winning_tiles_checked(h)
             IN  IF solved.raised # "none"
                 THEN [ret |-> [error |-> "exception", hand_str |-> str],
                       solver |-> TRUE]
                 ELSE [ret |-> report(h, str, solved.value), solver |-> TRUE]

\* analyze_hand
analyze_hand(str) == analyze_hand_run(str).ret

\* the notation of a run of tiles of one family: its digits and the letter
Run(nums, letter) == [k \in DOMAIN nums |-> DigitChars[nums[k] + 1]] \o <<letter>>

\* notations of simple_test.py, test_mahjong.py and main's example
TestNotations ==
    { Run(<<1, 1, 1, 2, 3, 4, 5, 6, 7, 8, 9, 9, 9>>, "m"),
      Run(<<1, 1, 1, 2, 2, 2, 3, 3, 3, 4, 4, 4>>, "m") \o <<"5">>,
      Run(<<1, 2, 3, 4, 5, 6, 7, 8>>, "m") \o Run(<<1, 1, 2, 2>>, "p") \o <<"7">>,
      Run(<<1, 1, 2, 2, 3, 3, 4, 4, 5, 5, 6, 6, 7>>, "m") \o <<"8">>,
      Run(<<1, 2, 3, 4, 5, 6, 7, 8>>, "m") \o Run(<<1, 1, 2>>, "p")
          \o Run(<<3, 4>>, "p"),
      Run(<<1, 2, 3, 4, 5, 6, 7, 8>>, "m") \o Run(<<1, 1, 2>>, "p"),
      Run(<<1, 1, 1, 1, 1>>, "m") \o Run(<<2, 3, 4, 5, 6, 7, 8>>, "m")
          \o Run(<<1, 2>>, "p"),
      Run(<<1, 4, 7>>, "m") \o Run(<<2, 5, 8>>, "p") \o Run(<<3, 6, 9>>, "s")
          \o Run(<<1, 2, 3, 4>>, "z"),
      Run(<<1, 2, 3, 4, 5, 6, 7, 8, 9>>, "s") \o Run(<<1, 2, 3>>, "m") \o <<"j">> }

\* further notations: 5 copies in 13 tiles, without and with a wildcard;
\* ranks no family has; an unknown letter; 5 wildcards; a single tile that
\* completes seven pairs and a standard hand; the 13 terminals and honors
OtherNotations ==
    { Run(<<1, 1, 1, 1, 1>>, "m") \o Run(<<2, 3, 4, 5, 6, 7, 8, 9>>, "m"),
      Run(<<1, 1, 1, 1, 1>>, "m") \o Run(<<2, 3, 4, 5, 6, 7, 8>>, "m") \o <<"j">>,
      Run(<<0>>, "m") \o Run(<<1, 2, 3, 4, 5, 6, 7, 8, 9>>, "m")
          \o Run(<<1, 2, 3>>, "p"),
      Run(<<1, 2, 3, 4, 5, 6, 7, 8>>, "m") \o Run(<<1, 2, 3>>, "p")
          \o Run(<<8, 9>>, "z"),
      Run(<<1, 1, 1, 2, 3, 4, 5, 6, 7, 8, 9, 9, 9>>, "m") \o Run(<<1, 2>>, "x"),
      <<"j", "j", "j", "j", "j">> \o Run(<<1, 2, 3, 4, 5, 6, 7>>, "m"),
      Run(<<1, 1, 2, 2, 3, 3>>, "m") \o Run(<<4, 4, 5, 5, 6, 6>>, "p")
          \o Run(<<7>>, "s"),
      Run(<<1, 9>>, "s") \o Run(<<1, 9>>, "m") \o Run(<<1, 9>>, "p")
          \o Run(<<1, 2, 3, 4, 5, 6, 7>>, "z") }

\* the keys typed at the end of a notation
Keys == {"5", "x", " "}

InitAnalyze ==
    /\ hand_str \in TestNotations \cup OtherNotations
    /\ pc = "typed"
    /\ parsed = <<>>
    /\ result = [error |-> "none"]
    /\ solver_called = FALSE
    /\ raised = "none"
    /\ swaps = 0
    /\ tiles_in = <<>>
    /\ hand = <<>>
    /\ winning_tiles = {}
    /\ before = {}
    /\ replaced = FALSE
    /\ test_hand = <<>>
    /\ shapes = [standard |-> FALSE, seven_pairs |-> FALSE,
                 thirteen_orphans |-> FALSE]
    /\ heap = <<>>
    /\ call = "none"
    /\ IdleMore

\* main, lines 479-480, and demo.py, line 120: the notation is analysed, and
\* parsed for display
AnalyzeHand ==
    /\ pc = "typed"
    /\ result' = analyze_hand(hand_str)
    /\ solver_called' = analyze_hand_run(hand_str).solver
    /\ parsed' = parse_hand(hand_str)
    /\ pc' = "reported"
    /\ UNCHANGED <<hand, winning_tiles, before, replaced, test_hand, shapes,
                   swaps, hand_str, tiles_in, raised, obj_vars,
                   more_vars>>

\* find_winning_tiles is called on the parsed list itself
SolveParsed ==
    /\ pc = "reported"
    /\ raised' = find_winning_tiles_checked(parsed).raised
    /\ winning_tiles' = find_winning_tiles_checked(parsed).value
    /\ pc' = "solved"
    /\ UNCHANGED <<hand, before, replaced, test_hand, shapes, swaps, hand_str,
                   tiles_in, parsed, result, solver_called, obj_vars,
                   more_vars>>

\* main, line 470: the next notation is the last one with one more key
TypeKey(c) ==
    /\ pc = "reported"
    /\ swaps < MaxSwaps
    /\ hand_str' = Append(hand_str, c)
    /\ swaps' = swaps + 1
    /\ pc' = "typed"
    /\ UNCHANGED <<hand, winning_tiles, before, replaced, test_hand, shapes,
                   tiles_in, parsed, result, solver_called, raised, obj_vars,
                   more_vars>>

\* main, line 470: the next notation is the last one with one key left out
LeaveOutKey(i) ==
    /\ pc = "reported"
    /\ swaps < MaxSwaps
    /\ hand_str' = SubSeq(hand_str, 1, i - 1)
                   \o SubSeq(hand_str, i + 1, Len(hand_str))
    /\ swaps' = swaps + 1
    /\ pc' = "typed"
    /\ UNCHANGED <<hand, winning_tiles, before, replaced, test_hand, shapes,
                   tiles_in, parsed, result, solver_called, raised, obj_vars,
                   more_vars>>

NextAnalyze ==
    \/ AnalyzeHand
    \/ SolveParsed
    \/ \E c \in Keys : TypeKey(c)
    \/ \E i \in DOMAIN hand_str : LeaveOutKey(i)

SpecAnalyze == InitAnalyze /\ [][NextAnalyze]_vars

(***************************************************************************)
(* Claims about parsing, validation and the report.                        *)
(***************************************************************************)
Failed == "error" \in DOMAIN result
Complete == {"winning_tiles", "winning_count", "is_tingpai"} \subseteq DOMAIN result
NoWinningData ==
    {"winning_tiles", "winning_count", "is_tingpai"} \cap DOMAIN result = {}

\* some run of digits of the notation, the wildcard letters taken out, is not
\* followed by a family letter
Malformed(str) ==
    LET t == SelectSeq(str, LAMBDA c : c # "j")
    IN  \E i \in DOMAIN t :
            /\ t[i] \in Digits
            /\ i = Len(t) \/ t[i + 1] \notin Digits \cup FamilyLetters

\* C11: a notation in which a run of digits is not followed by a family
\* letter is rejected: its digits are never dropped, and no analysis result
\* is produced for it.
C11_MalformedRejected ==
    (pc = "reported" /\ Malformed(hand_str)) => (Failed /\ NoWinningData)

C13_WrongTileCount ==
    /\ (pc \in {"reported", "solved"} /\ Len(parsed) # 13) =>
          /\ Failed
          /\ result.error = "tile_count"
          /\ NoWinningData
    /\ pc = "solved" => (raised = "ValueError" <=> Len(parsed) # 13)

\* C13 witness: a notation of 12 tiles has been returned with the tile-count
\* failure, and find_winning_tiles has raised for its 12 tiles.
C13_Witness ==
    /\ pc = "solved"
    /\ Len(parsed) = 12
    /\ Failed
    /\ result.error = "tile_count"
    /\ raised = "ValueError"

\* C14: the parser never returns a tile outside the 34 concrete tiles and
\* the wildcard: a digit out of range for its family (0 in any family, 8 or
\* 9 in the honor family) makes parsing fail.
C14_ParserRejectsRanks ==
    pc = "reported" => Range(parsed) \subseteq Range(all_tiles)

\* C14, amended: parse_hand returns the codes as written, and analyze_hand
\* rejects them: a notation with a digit out of range for its family is
\* returned with a failure and no winning tiles, the invalid-tile failure
\* when it parses to 13 tiles, and a complete result only ever holds tiles
\* among the 34 concrete tiles and the wildcard.
C14_AnalysisRejectsRanks ==
    pc = "reported" =>
        /\ invalid_tiles(parsed) # <<>> =>
              /\ Failed
              /\ NoWinningData
              /\ ~solver_called
              /\ Len(parsed) = 13 => result.error = "invalid_tiles"
        /\ Complete => Range(result.hand) \subseteq Range(all_tiles)

\* C14 witness: a notation of 13 tiles with the rank 8 or 9 of the honor
\* family has been parsed to those codes and returned with the invalid-tile
\* failure.
C14_Witness ==
    /\ pc = "reported"
    /\ Len(parsed) = 13
    /\ \E t \in Range(parsed) : Suit(t) = Z /\ Num(t) \in {8, 9}
    /\ Failed
    /\ result.error = "invalid_tiles"

\* the shape a reported type name stands for
ShapeOf(name) ==
    CASE name \in {"standard", "standard_joker"} -> "standard"
      [] name \in {"seven_pairs", "seven_pairs_joker"} -> "seven_pairs"
      [] name \in {"thirteen_orphans", "thirteen_orphans_joker"} ->
             "thirteen_orphans"
      [] OTHER -> "none"

\* the checker of a shape
Accepts(shape, tiles) ==
    CASE shape = "standard" -> check_standard_win(tiles)
      [] shape = "seven_pairs" -> check_seven_pairs(tiles)
      [] shape = "thirteen_orphans" -> check_thirteen_orphans(tiles)

RECURSIVE VariantAccepted(_, _, _)
\* the checker of the shape accepts some expanded variant
VariantAccepted(shape, new_hand, k) ==
    IF k = 0 THEN Accepts(shape, sorted(new_hand))
    ELSE \E i \in DOMAIN normal_tiles :
             VariantAccepted(shape, Append(new_hand, normal_tiles[i]), k - 1)

\* the shapes the hand plus the tile can realize
RealizedShapes(h, tile) ==
    LET tiles == Append(h, tile)
    IN  {shape \in {"standard", "seven_pairs", "thirteen_orphans"} :
            VariantAccepted(shape, base_hand(tiles), joker_count(tiles))}

\* C17: a complete result reports, for each winning tile, every shape the
\* tile can realize: every shape whose checker accepts some expanded variant
\* of the hand plus the tile is among the reported types.
C17_AllShapesReported ==
    (pc = "reported" /\ Complete) =>
        \A tile \in Range(result.winning_tiles) :
            RealizedShapes(result.hand, tile)
                \subseteq {ShapeOf(name) : name \in result.winning_types}

\* C18: analyze_hand returns one of two records: a failure, with the error
\* and no winning tiles, count or waiting flag, the solver not run; or a
\* complete result, with all three and no error, the solver run.
C18_FailureOrComplete ==
    pc = "reported" =>
        \/ Failed /\ NoWinningData /\ ~solver_called
                  /\ result.error \in {"tile_count", "invalid_tiles", "over_limit"}
        \/ ~Failed /\ Complete /\ solver_called

\* C18 witness: a notation that was changed has been analysed, and its 13
\* tiles returned with a failure.
C18_Witness ==
    /\ pc = "reported"
    /\ swaps > 0
    /\ Failed
    /\ NoWinningData
    /\ Len(parsed) = 13

\* C20: in a complete result the waiting flag is set exactly when there are
\* winning tiles, the count is the number of entries of the list of winning
\* tiles, and no tile is in the list twice.
C20_ReportConsistent ==
    (pc = "reported" /\ Complete) =>
        /\ result.is_tingpai <=> result.winning_tiles # <<>>
        /\ result.winning_count = Len(result.winning_tiles)
        /\ \A i, j \in DOMAIN result.winning_tiles :
              i # j => result.winning_tiles[i] # result.winning_tiles[j]

\* C20 witness: a complete result of a waiting hand with several winning
\* tiles.
C20_Witness ==
    /\ pc = "reported"
    /\ Complete
    /\ result.is_tingpai
    /\ result.winning_count > 2

(***************************************************************************)
(* The list objects of an engine call.  A heap is the sequence of the list *)
(* objects alive, an object is named by its index; heap[1] is the list the *)
(* caller passed in.  Each operation below returns the heap its Python     *)
(* statements leave behind, the checkers together with the value they      *)
(* return.  The objects a call allocated are released when it returns      *)
(* without handing them out.                                               *)
(***************************************************************************)
\* name = value, then the statements after it: value is evaluated once
Let(value, After(_)) == CHOOSE out \in {After(name) : name \in {value}} : TRUE

\* x.sort(), the name bound to x itself: the list is sorted in place
list_sort_in_place(hp, x) ==
    [heap |-> [hp EXCEPT ![x] = sorted(@)], id |-> x]

\* sorted(x): a new list
list_sorted(hp, x) ==
    [heap |-> Append(hp, sorted(hp[x])), id |-> Len(hp) + 1]

\* x.copy(): a new list
list_copy(hp, x) ==
    [heap |-> Append(hp, hp[x]), id |-> Len(hp) + 1]

\* x + more: a new list
list_plus(hp, x, more) ==
    [heap |-> Append(hp, hp[x] \o more), id |-> Len(hp) + 1]

RECURSIVE list_remove(_, _, _)
\* x.remove(tile) for each tile of tiles, one after the other: in place
list_remove(hp, x, tiles) ==
    IF tiles = <<>> THEN hp
    ELSE list_remove([hp EXCEPT ![x] = remove(@, Head(tiles))], x,
                     Tail(tiles))

\* the objects of a call die when it returns
release(hp, n) == SubSeq(hp, 1, n)

RECURSIVE try_combinations_heap(_, _, _, _)
RECURSIVE try_group_heap(_, _, _, _, _)
\* _try_combinations, lines 214-219, 224-229 and 240-245: new_remaining =
\* remaining_sorted.copy(), the tiles of the group removed from it, and the
\* call on new_remaining and groups + [group]; rs is remaining_sorted
try_group_heap(hp, rs, group, groups, pair_count) ==
    Let(list_copy(hp, rs), LAMBDA new_remaining :
    Let(list_remove(new_remaining.heap, new_remaining.id, group), LAMBDA h :
    Let(try_combinations_heap(h, new_remaining.id, Append(groups, group),
                              pair_count), LAMBDA called :
        [heap |-> release(called.heap, Len(hp)), ret |-> called.ret])))

\* _try_combinations(remaining, groups, pair_count), remaining the object r
try_combinations_heap(hp, r, groups, pair_count) ==
    IF hp[r] = <<>>
    THEN LET melds == SelectSeq(groups, LAMBDA g : Len(g) = 3)
             pairs == SelectSeq(groups, LAMBDA g : Len(g) = 2)
         IN  [heap |-> hp, ret |-> Len(melds) = 4 /\ Len(pairs) = 1]
    ELSE IF Len(groups) > 5 THEN [heap |-> hp, ret |-> FALSE]
    ELSE
    Let(list_sorted(hp, r), LAMBDA remaining_sorted :
    LET rs == remaining_sorted.id
        first_tile == remaining_sorted.heap[rs][1]
        n == count(remaining_sorted.heap[rs], first_tile)
        tile2 == Tile(Num(first_tile) + 1, Suit(first_tile))
        tile3 == Tile(Num(first_tile) + 2, Suit(first_tile))
    IN
    Let(IF pair_count = 0 /\ n >= 2
        THEN try_group_heap(remaining_sorted.heap, rs,
                            <<first_tile, first_tile>>, groups, 1)
        ELSE [heap |-> remaining_sorted.heap, ret |-> FALSE], LAMBDA pair :
    IF pair.ret THEN [heap |-> release(pair.heap, Len(hp)), ret |-> TRUE]
    ELSE
    Let(IF n >= 3
        THEN try_group_heap(pair.heap, rs,
                            <<first_tile, first_tile, first_tile>>, groups,
                            pair_count)
        ELSE pair, LAMBDA triplet :
    IF triplet.ret
    THEN [heap |-> release(triplet.heap, Len(hp)), ret |-> TRUE]
    ELSE
    Let(IF /\ can_start_sequence(first_tile)
           /\ tile2 \in Range(triplet.heap[rs])
           /\ tile3 \in Range(triplet.heap[rs])
        THEN try_group_heap(triplet.heap, rs, <<first_tile, tile2, tile3>>,
                            groups, pair_count)
        ELSE triplet, LAMBDA sequence :
    [heap |-> release(sequence.heap, Len(hp)), ret |-> sequence.ret]))))

\* _check_standard_win(tiles): tiles itself goes to _try_combinations, with a
\* new list of groups
check_standard_win_heap(hp, t) == try_combinations_heap(hp, t, <<>>, 0)

\* _check_seven_pairs(tiles) and _check_thirteen_orphans(tiles) read tiles,
\* into a Counter
check_seven_pairs_heap(hp, t) ==
    [heap |-> hp, ret |-> check_seven_pairs(hp[t])]
check_thirteen_orphans_heap(hp, t) ==
    [heap |-> hp, ret |-> check_thirteen_orphans(hp[t])]

\* is_winning_hand, lines 258-260 and 266-268: standard or seven pairs or
\* thirteen orphans on the object t, a checker called if none before it
\* accepted
any_shape_heap(hp, t) ==
    Let(check_standard_win_heap(hp, t), LAMBDA standard :
    IF standard.ret THEN standard
    ELSE Let(check_seven_pairs_heap(standard.heap, t), LAMBDA pairs :
         IF pairs.ret THEN pairs
         ELSE check_thirteen_orphans_heap(pairs.heap, t)))

\* get_winning_type, lines 282-287 and 295-300: thirteen orphans, else seven
\* pairs, else standard on the object t
concrete_type_heap(hp, t) ==
    Let(check_thirteen_orphans_heap(hp, t), LAMBDA orphans :
    IF orphans.ret THEN orphans
    ELSE Let(check_seven_pairs_heap(orphans.heap, t), LAMBDA pairs :
         IF pairs.ret THEN pairs
         ELSE check_standard_win_heap(pairs.heap, t)))

RECURSIVE replacements(_)
\* product(self.normal_tiles, repeat = k), in product order
replacements(k) ==
    IF k = 0 THEN << <<>> >>
    ELSE LET rest == replacements(k - 1)
             n == Len(rest)
         IN  [i \in 1..(Len(normal_tiles) * n) |->
                 <<normal_tiles[((i - 1) \div n) + 1]>>
                     \o rest[((i - 1) % n) + 1]]

RECURSIVE combinations_heap(_, _, _, _, _)
\* generate_joker_combinations, lines 87-90, for the replacements lo..hi (the
\* first half of them, then the second half): new_hand = base_hand +
\* list(replacement) and sorted(new_hand) are new lists, the second one
\* appended to combinations
combinations_heap(hp, base, reps, lo, hi) ==
    IF lo = hi
    THEN Let(list_plus(hp, base, reps[lo]), LAMBDA new_hand :
         Let(list_sorted(new_hand.heap, new_hand.id), LAMBDA combo :
             [heap |-> combo.heap, combos |-> <<combo.id>>]))
    ELSE Let(combinations_heap(hp, base, reps, lo, (lo + hi) \div 2),
             LAMBDA left :
         Let(combinations_heap(left.heap, base, reps,
                               (lo + hi) \div 2 + 1, hi), LAMBDA right :
             [heap |-> right.heap, combos |-> left.combos \o right.combos]))

RECURSIVE unique_combinations(_, _, _, _)
\* generate_joker_combinations, lines 92-99: the lists of combinations whose
\* tiles were not seen in an earlier one
unique_combinations(hp, ids, i, kept) ==
    IF i > Len(ids) THEN kept
    ELSE IF \E j \in DOMAIN kept : hp[kept[j]] = hp[ids[i]]
    THEN unique_combinations(hp, ids, i + 1, kept)
    ELSE unique_combinations(hp, ids, i + 1, Append(kept, ids[i]))

\* generate_joker_combinations(hand), hand the object h: the heap it leaves
\* and the lists it returns; without a wildcard it returns [hand], the
\* caller's own list
generate_joker_combinations_heap(hp, h) ==
    IF count(hp[h], J) = 0 THEN [heap |-> hp, combos |-> <<h>>]
    ELSE Let(replacements(joker_count(hp[h])), LAMBDA reps :
         Let(combinations_heap(Append(hp, base_hand(hp[h])), Len(hp) + 1,
                               reps, 1, Len(reps)), LAMBDA made :
             [heap |-> made.heap,
              combos |-> unique_combinations(made.heap, made.combos, 1,
                                             <<>>)]))

RECURSIVE any_combination_heap(_, _, _, _)
\* is_winning_hand, lines 265-269: the loop over the combinations lo..hi
\* (the first half of them, then the second half), returning at the first
\* one a checker accepts
any_combination_heap(hp, ids, lo, hi) ==
    IF lo = hi THEN any_shape_heap(hp, ids[lo])
    ELSE Let(any_combination_heap(hp, ids, lo, (lo + hi) \div 2),
             LAMBDA left :
         IF left.ret THEN left
         ELSE any_combination_heap(left.heap, ids, (lo + hi) \div 2 + 1, hi))

\* is_winning_hand(tiles), tiles the object t
is_winning_hand_heap(hp, t) ==
    IF Len(hp[t]) # 14 THEN [heap |-> hp, ret |-> FALSE]
    ELSE IF J \notin Range(hp[t]) THEN any_shape_heap(hp, t)
    ELSE Let(generate_joker_combinations_heap(hp, t), LAMBDA combinations :
         Let(any_combination_heap(combinations.heap, combinations.combos, 1,
                                  Len(combinations.combos)), LAMBDA looped :
             [heap |-> release(looped.heap, Len(hp)), ret |-> looped.ret]))

RECURSIVE first_type_heap(_, _, _, _)
\* get_winning_type, lines 294-300: the loop over the combinations lo..hi
\* (the first half of them, then the second half), returning at the first
\* one that has a type
first_type_heap(hp, ids, lo, hi) ==
    IF lo = hi THEN concrete_type_heap(hp, ids[lo])
    ELSE Let(first_type_heap(hp, ids, lo, (lo + hi) \div 2), LAMBDA left :
         IF left.ret THEN left
         ELSE first_type_heap(left.heap, ids, (lo + hi) \div 2 + 1, hi))

\* get_winning_type(tiles), tiles the object t; ret tells whether the hand
\* has a type
get_winning_type_heap(hp, t) ==
    IF Len(hp[t]) # 14 THEN [heap |-> hp, ret |-> FALSE]
    ELSE IF J \notin Range(hp[t]) THEN concrete_type_heap(hp, t)
    ELSE Let(generate_joker_combinations_heap(hp, t), LAMBDA combinations :
         Let(first_type_heap(combinations.heap, combinations.combos, 1,
                             Len(combinations.combos)), LAMBDA looped :
             [heap |-> release(looped.heap, Len(hp)), ret |-> looped.ret]))

RECURSIVE candidates_heap(_, _, _, _, _)
\* find_winning_tiles, lines 314-321: the loop over the tiles lo..hi of
\* all_tiles (the first half of them, then the second half); hand_counter
\* holds the counts of hand taken before the loop, and test_hand = hand +
\* [tile] is a new list
candidates_heap(hp, h, hand_counter, lo, hi) ==
    IF lo = hi
    THEN IF all_tiles[lo] # J /\ count(hand_counter, all_tiles[lo]) >= 4
         THEN hp
         ELSE Let(list_plus(hp, h, <<all_tiles[lo]>>), LAMBDA new_hand :
                  release(is_winning_hand_heap(new_hand.heap,
                                               new_hand.id).heap, Len(hp)))
    ELSE Let(candidates_heap(hp, h, hand_counter, lo, (lo + hi) \div 2),
             LAMBDA left :
             candidates_heap(left, h, hand_counter, (lo + hi) \div 2 + 1, hi))

\* find_winning_tiles(hand), hand the object h; a hand that is not of 13
\* tiles raises before anything else
find_winning_tiles_heap(hp, h) ==
    IF Len(hp[h]) # 13 THEN hp
    ELSE candidates_heap(hp, h, hp[h], 1, Len(all_tiles))

(***************************************************************************)
(* A caller passes a list to one engine operation.                         *)
(***************************************************************************)
\* 14-tile lists with one wildcard, first or last
OneJoker ==
    {h \o <<J>> : h \in TestHands \cup {ScenarioB}}
    \cup {<<J>> \o h : h \in ScenarioC}

\* the lists passed: 13-tile hands and 14-tile lists, in the order written
PassedLists == ExampleHands \cup ExampleWins \cup NearMisses \cup OneJoker

EngineOperations ==
    {"find_winning_tiles", "is_winning_hand", "get_winning_type",
     "generate_joker_combinations", "_check_standard_win",
     "_check_seven_pairs", "_check_thirteen_orphans"}

\* the heap after the operation was called on the object t and returned
heap_after(op, hp, t) ==
    CASE op = "find_winning_tiles" -> find_winning_tiles_heap(hp, t)
      [] op = "is_winning_hand" -> is_winning_hand_heap(hp, t).heap
      [] op = "get_winning_type" -> get_winning_type_heap(hp, t).heap
      [] op = "generate_joker_combinations" ->
             generate_joker_combinations_heap(hp, t).heap
      [] op = "_check_standard_win" -> check_standard_win_heap(hp, t).heap
      [] op = "_check_seven_pairs" -> check_seven_pairs_heap(hp, t).heap
      [] op = "_check_thirteen_orphans" ->
             check_thirteen_orphans_heap(hp, t).heap

InitObjects ==
    /\ tiles_in \in PassedLists
    /\ heap = <<tiles_in>>
    /\ call = "none"
    /\ IdleMore
    /\ pc = "passed"
    /\ swaps = 0
    /\ hand = <<>>
    /\ winning_tiles = {}
    /\ before = {}
    /\ replaced = FALSE
    /\ test_hand = <<>>
    /\ shapes = [standard |-> FALSE, seven_pairs |-> FALSE,
                 thirteen_orphans |-> FALSE]
    /\ hand_str = <<>>
    /\ parsed = <<>>
    /\ result = [error |-> "none"]
    /\ solver_called = FALSE
    /\ raised = "none"

\* the caller calls the operation on its list and the call returns
CallEngine(op) ==
    /\ pc = "passed"
    /\ heap' = heap_after(op, heap, 1)
    /\ call' = op
    /\ pc' = "returned"
    /\ UNCHANGED <<hand, winning_tiles, before, replaced, test_hand, shapes,
                   swaps, io_vars, more_vars>>

NextObjects == \E op \in EngineOperations : CallEngine(op)

SpecObjects == InitObjects /\ [][NextObjects]_vars

\* C19: after any of the engine operations returned, the list the caller
\* passed holds the same tiles in the same order as before the call
C19_ArgumentUnchanged ==
    pc = "returned" => heap[1] = tiles_in

\* an engine operation returned from a call on a list that is not sorted,
\* holds 14 tiles and completes a standard shape
C19_Witness ==
    /\ pc = "returned"
    /\ call = "is_winning_hand"
    /\ tiles_in # sorted(tiles_in)
    /\ check_standard_win(tiles_in)

(***************************************************************************)
(* The same notation analysed twice.  list(winning_types) lists a set of   *)
(* strings in its iteration order, which follows the string hashes of the  *)
(* running interpreter; each start of the program draws a hash seed.       *)
(***************************************************************************)
\* iteration orders of the type names, one for each hash seed considered
HashOrders ==
    << <<"standard", "seven_pairs", "thirteen_orphans", "standard_joker",
         "seven_pairs_joker", "thirteen_orphans_joker">>,
       <<"seven_pairs", "standard", "standard_joker", "thirteen_orphans",
         "thirteen_orphans_joker", "seven_pairs_joker">>,
       <<"standard_joker", "seven_pairs_joker", "thirteen_orphans_joker",
         "seven_pairs", "standard", "thirteen_orphans">> >>
HashSeeds == DOMAIN HashOrders

\* analyze_hand, line 381: list(winning_types) under a hash seed
list_of_types(types, seed) ==
    SelectSeq(HashOrders[seed], LAMBDA name : name \in types)

\* analyze_hand in an interpreter started with the hash seed
analyze_hand_seeded(str, seed) ==
    Let(analyze_hand(str), LAMBDA ret :
        IF "winning_types" \in DOMAIN ret
        THEN [ret EXCEPT !.winning_types = list_of_types(@, seed)]
        ELSE ret)

InitRerun ==
    /\ hand_str \in TestNotations \cup OtherNotations
    /\ hash_seed \in HashSeeds
    /\ earlier = [error |-> "none"]
    /\ pc = "typed"
    /\ parsed = <<>>
    /\ result = [error |-> "none"]
    /\ solver_called = FALSE
    /\ raised = "none"
    /\ swaps = 0
    /\ tiles_in = <<>>
    /\ hand = <<>>
    /\ winning_tiles = {}
    /\ before = {}
    /\ replaced = FALSE
    /\ test_hand = <<>>
    /\ shapes = [standard |-> FALSE, seven_pairs |-> FALSE,
                 thirteen_orphans |-> FALSE]
    /\ heap = <<>>
    /\ call = "none"
    /\ expanded = <<>>
    /\ wins = FALSE
    /\ frame = [remaining |-> <<>>, groups |-> <<>>, pair_count |-> 0]
    /\ slots = <<>>
    /\ last_op = "none"
    /\ slots_before = <<>>

\* main, line 479: the notation is analysed
AnalyzeTyped ==
    /\ pc = "typed"
    /\ result' = analyze_hand_seeded(hand_str, hash_seed)
    /\ pc' = "reported"
    /\ UNCHANGED <<hand, winning_tiles, before, replaced, test_hand, shapes,
                   swaps, hand_str, tiles_in, parsed, solver_called, raised,
                   obj_vars, hash_seed, earlier, engine_vars, gui_vars>>

\* main, lines 468-479: the same notation is typed at the next prompt
AnalyzeAgain ==
    /\ pc = "reported"
    /\ earlier' = result
    /\ result' = analyze_hand_seeded(hand_str, hash_seed)
    /\ pc' = "repeated"
    /\ UNCHANGED <<hand, winning_tiles, before, replaced, test_hand, shapes,
                   swaps, hand_str, tiles_in, parsed, solver_called, raised,
                   obj_vars, hash_seed, engine_vars, gui_vars>>

\* the program is started again and the same notation is typed
Restart(seed) ==
    /\ pc = "reported"
    /\ hash_seed' = seed
    /\ earlier' = result
    /\ result' = analyze_hand_seeded(hand_str, seed)
    /\ pc' = "repeated"
    /\ UNCHANGED <<hand, winning_tiles, before, replaced, test_hand, shapes,
                   swaps, hand_str, tiles_in, parsed, solver_called, raised,
                   obj_vars, engine_vars, gui_vars>>

NextRerun ==
    \/ AnalyzeTyped
    \/ AnalyzeAgain
    \/ \E seed \in HashSeeds : Restart(seed)

SpecRerun == InitRerun /\ [][NextRerun]_vars

\* C21: two analyses of the same notation return the same dict, field by
\* field, the order of winning_tiles and of winning_types included
C21_SameResultTwice ==
    pc = "repeated" => result = earlier

(***************************************************************************)
(* The wildcard expander on its own.                                       *)
(***************************************************************************)
\* generate_joker_combinations, lines 87-90: the list combinations, one
\* sorted list for each replacement, in product order
all_combinations(h) ==
    Let(replacements(joker_count(h)), LAMBDA reps :
        [i \in DOMAIN reps |-> sorted(base_hand(h) \o reps[i])])

\* generate_joker_combinations, lines 92-99: the lists that no earlier list
\* of combinations equals, in the order of combinations
first_occurrences(combos) ==
    Let(SelectSeq([i \in DOMAIN combos |-> i],
                  LAMBDA i : \A j \in 1..(i - 1) : combos[j] # combos[i]),
        LAMBDA kept : [k \in DOMAIN kept |-> combos[kept[k]]])

\* generate_joker_combinations returning combinations as they are
generate_joker_combinations_all(h) ==
    IF count(h, J) = 0 THEN <<h>>
    ELSE all_combinations(h)

\* generate_joker_combinations
generate_joker_combinations(h) ==
    IF count(h, J) = 0 THEN <<h>>
    ELSE Let(all_combinations(h), LAMBDA combos : first_occurrences(combos))

\* the lists handed to the expander: without a wildcard, with one wildcard
\* in any slot, and with two
TwoJokers == {Replace(Replace(h, 1, J), 9, J) : h \in TestHands}
ExpanderInputs ==
    PassedLists
    \cup {Replace(h, i, J) : h \in ExampleHands, i \in 1..13}
    \cup TwoJokers

InitExpand ==
    /\ tiles_in \in ExpanderInputs
    /\ expanded = <<>>
    /\ pc = "passed"
    /\ swaps = 0
    /\ hand = <<>>
    /\ winning_tiles = {}
    /\ before = {}
    /\ replaced = FALSE
    /\ test_hand = <<>>
    /\ shapes = [standard |-> FALSE, seven_pairs |-> FALSE,
                 thirteen_orphans |-> FALSE]
    /\ hand_str = <<>>
    /\ parsed = <<>>
    /\ result = [error |-> "none"]
    /\ solver_called = FALSE
    /\ raised = "none"
    /\ heap = <<>>
    /\ call = "none"
    /\ hash_seed = 0
    /\ earlier = [error |-> "none"]
    /\ wins = FALSE
    /\ frame = [remaining |-> <<>>, groups |-> <<>>, pair_count |-> 0]
    /\ slots = <<>>
    /\ last_op = "none"
    /\ slots_before = <<>>

\* is_winning_hand, line 263: the expander is called on the list
Expand ==
    /\ pc = "passed"
    /\ expanded' = generate_joker_combinations(tiles_in)
    /\ pc' = "expanded"
    /\ UNCHANGED <<hand, winning_tiles, before, replaced, test_hand, shapes,
                   swaps, io_vars, obj_vars, run_vars, wins, frame, gui_vars>>

NextExpand == Expand

SpecExpand == InitExpand /\ [][NextExpand]_vars

\* the 34 concrete tiles, and the lists of the non-wildcard tiles of the
\* input plus k of them, each list in sorted order (one list per multiset)
ConcreteTiles == Range(normal_tiles)
Substitutions(tiles, k) ==
    {sorted(base_hand(tiles) \o chosen) : chosen \in [1..k -> ConcreteTiles]}

\* C22: for a list with k wildcards, 0 <= k <= 4, the expander returns each
\* multiset of the non-wildcard tiles plus k concrete tiles exactly once and
\* nothing else; for k = 0 it returns the input alone, as it is
C22_ExactlyTheDistinctSubstitutions ==
    pc = "expanded" /\ count(tiles_in, J) <= 4 =>
        /\ \A i, j \in DOMAIN expanded : expanded[i] = expanded[j] => i = j
        /\ count(tiles_in, J) > 0 =>
               Range(expanded) = Substitutions(tiles_in, count(tiles_in, J))
        /\ count(tiles_in, J) = 0 => expanded = <<tiles_in>>

\* the expander returned for a list with two wildcards, where two
\* replacements that differ in their order give the same list
C22_Witness ==
    /\ pc = "expanded"
    /\ count(tiles_in, J) = 2
    /\ Len(expanded) < Len(normal_tiles) * Len(normal_tiles)

(***************************************************************************)
(* is_winning_hand on 14-tile lists with many wildcards.                   *)
(***************************************************************************)
\* 14 wildcards; 13 wildcards and 1m; 5 wildcards and 123456789m
ManyJokers ==
    { [i \in 1..14 |-> J],
      [i \in 1..13 |-> J] \o Hand(<<1>>, M),
      [i \in 1..5 |-> J] \o Hand(<<1, 2, 3, 4, 5, 6, 7, 8, 9>>, M) }

\* 14-tile lists without a wildcard, with one wildcard in any slot, and
\* with five wildcards or more
CapInputs ==
    ExampleWins \cup NearMisses
    \cup {Replace(h, i, J) : h \in ExampleWins \cup NearMisses, i \in 1..14}
    \cup ManyJokers

InitCap ==
    /\ test_hand \in CapInputs
    /\ wins = FALSE
    /\ pc = "dealt"
    /\ swaps = 0
    /\ hand = <<>>
    /\ winning_tiles = {}
    /\ before = {}
    /\ replaced = FALSE
    /\ shapes = [standard |-> FALSE, seven_pairs |-> FALSE,
                 thirteen_orphans |-> FALSE]
    /\ hand_str = <<>>
    /\ tiles_in = <<>>
    /\ parsed = <<>>
    /\ result = [error |-> "none"]
    /\ solver_called = FALSE
    /\ raised = "none"
    /\ heap = <<>>
    /\ call = "none"
    /\ hash_seed = 0
    /\ earlier = [error |-> "none"]
    /\ expanded = <<>>
    /\ frame = [remaining |-> <<>>, groups |-> <<>>, pair_count |-> 0]
    /\ slots = <<>>
    /\ last_op = "none"
    /\ slots_before = <<>>

\* find_winning_tiles, line 320: is_winning_hand is called on the list
CheckWin ==
    /\ pc = "dealt"
    /\ wins' = is_winning_hand(test_hand)
    /\ pc' = "checked"
    /\ UNCHANGED <<hand, winning_tiles, before, replaced, test_hand, shapes,
                   swaps, io_vars, obj_vars, run_vars, expanded, frame,
                   gui_vars>>

NextCap == CheckWin

SpecCap == InitCap /\ [][NextCap]_vars

RECURSIVE EveryCombination(_, _)
\* every list sorted(new_hand + replacement), for the replacements of k
\* wildcards, has 14 tiles and no wildcard
EveryCombination(new_hand, k) ==
    IF k = 0
    THEN LET combo == sorted(new_hand)
         IN  Len(combo) = 14 /\ J \notin Range(combo)
    ELSE \A i \in DOMAIN normal_tiles :
             EveryCombination(Append(new_hand, normal_tiles[i]), k - 1)

\* C23: every list the expander returns for a 14-tile input, which is every
\* list is_winning_hand calls a shape checker on, has 14 tiles and no
\* wildcard, however many wildcards the input holds
C23_CombinationsComplete ==
    pc = "checked" =>
        IF J \in Range(test_hand)
        THEN EveryCombination(base_hand(test_hand), joker_count(test_hand))
        ELSE Len(test_hand) = 14

RECURSIVE WinsWithinLimit(_, _)
\* some list sorted(new_hand + replacement), for the replacements of k
\* wildcards, is accepted by a checker and holds no tile more than 4 times
WinsWithinLimit(new_hand, k) ==
    IF k = 0
    THEN LET combo == sorted(new_hand)
         IN  WithinLimit(combo) /\ any_shape(combo)
    ELSE \E i \in DOMAIN normal_tiles :
             WinsWithinLimit(Append(new_hand, normal_tiles[i]), k - 1)

\* C24: for a validated hand with wildcards, every reported winning tile
\* completes some concrete 14-tile list that a checker accepts and that
\* holds no tile more than 4 times
C24_NoFifthCopy ==
    pc = "analyzed" /\ J \in Range(hand) /\ WithinLimit(hand) =>
        \A tile \in winning_tiles :
            WinsWithinLimit(base_hand(Append(hand, tile)),
                            joker_count(Append(hand, tile)))

\* C25: a concrete tile held 4 times in the 13-tile hand is not reported as
\* a winning tile, also when a checker would accept the list with a 5th
\* copy, and the list with the 5th copy is not handed to is_winning_hand
C25_FourCopiesNeverReported ==
    pc = "analyzed" =>
        \A tile \in Range(normal_tiles) :
            count(hand, tile) >= 4 =>
                tile \notin winning_tiles /\ tile \notin tested_tiles(hand)

\* a hand was analysed that holds a tile 4 times and that a 5th copy of it
\* would complete
C25_Witness ==
    /\ pc = "analyzed"
    /\ \E tile \in Range(normal_tiles) :
           /\ count(hand, tile) = 4
           /\ is_winning_hand(Append(hand, tile))
           /\ tile \notin winning_tiles

\* C27: get_winning_type returns the not-winning name exactly when
\* is_winning_hand returns False, for the parsed list and for the parsed
\* list with any one tile more; and a complete result has winning types
\* exactly when it has winning tiles
C27_TypeIffWinning ==
    pc = "reported" =>
        /\ (get_winning_type(parsed) = "none") <=> ~is_winning_hand(parsed)
        /\ \A i \in DOMAIN all_tiles :
               (get_winning_type(Append(parsed, all_tiles[i])) = "none")
                   <=> ~is_winning_hand(Append(parsed, all_tiles[i]))
        /\ Complete =>
               ((result.winning_types = {}) <=> (result.winning_tiles = <<>>))

\* a complete result with winning tiles, of a hand that a tile completes to
\* thirteen orphans
C27_Witness ==
    /\ pc = "reported"
    /\ Complete
    /\ result.winning_tiles # <<>>
    /\ \E i \in DOMAIN all_tiles :
           check_thirteen_orphans(sorted(Append(parsed, all_tiles[i])))

(***************************************************************************)
(* The standard-shape search, one step at a time: frame is the stack of    *)
(* the calls of _try_combinations that have not returned, the innermost    *)
(* call last.  Each call records its arguments, remaining_sorted, the      *)
(* place it is at, and the number of calls it has made.                    *)
(***************************************************************************)
\* lists handed to _check_standard_win: 14 tiles, and 0, 2, 5 and 20 tiles
SearchInputs ==
    ExampleWins \cup NearMisses
    \cup { <<>>,
           Hand(<<5, 5>>, Z),
           Hand(<<3, 1, 2>>, P) \o Hand(<<9, 9>>, S),
           Hand(<<1, 1, 1, 2, 2, 2, 3, 3, 3, 4, 4, 4, 5, 5, 5, 6, 6, 6, 7, 7>>,
                M) }

\* a call of _try_combinations(remaining, groups, pair_count) at its first
\* line
entered(remaining, groups, pair_count) ==
    [remaining |-> remaining, groups |-> groups, pair_count |-> pair_count,
     remaining_sorted |-> <<>>, at |-> "enter", calls |-> 0]

top == frame[Len(frame)]
first_tile_of(f) == f.remaining_sorted[1]

\* lines 213 and 222: the tests of the pair branch and of the triplet branch
pair_allowed_any_count(f) ==
    count(f.remaining_sorted, first_tile_of(f)) >= 2
pair_allowed(f) ==
    f.pair_count = 0 /\ count(f.remaining_sorted, first_tile_of(f)) >= 2
triplet_allowed(f) == count(f.remaining_sorted, first_tile_of(f)) >= 3

\* lines 232-239: the test of the sequence branch
sequence_allowed(f) ==
    /\ can_start_sequence(first_tile_of(f))
    /\ Tile(Num(first_tile_of(f)) + 1, Suit(first_tile_of(f)))
           \in Range(f.remaining_sorted)
    /\ Tile(Num(first_tile_of(f)) + 2, Suit(first_tile_of(f)))
           \in Range(f.remaining_sorted)

RECURSIVE remove_all(_, _)
\* new_remaining = remaining_sorted.copy() and one remove per tile of the
\* group
remove_all(seq, group) ==
    IF group = <<>> THEN seq
    ELSE remove_all(remove(seq, Head(group)), Tail(group))

\* the call made by a branch: the caller resumes at `next` when the call
\* returns False
call_with(group, pair_count, next) ==
    frame' = Append(
        [frame EXCEPT ![Len(frame)].at = next,
                      ![Len(frame)].calls = top.calls + 1],
        entered(remove_all(top.remaining_sorted, group),
                Append(top.groups, group), pair_count))

\* the innermost call returns ret: True is returned on by every caller
\* (lines 218-219, 228-229, 244-245), False lets the caller go on
return_with(ret) ==
    IF ret \/ Len(frame) = 1
    THEN /\ frame' = <<>>
         /\ wins' = ret
         /\ pc' = "returned"
    ELSE /\ frame' = SubSeq(frame, 1, Len(frame) - 1)
         /\ UNCHANGED <<wins, pc>>

search_rest ==
    <<hand, winning_tiles, before, replaced, shapes, swaps, io_vars, obj_vars,
      run_vars, expanded, gui_vars>>

InitSearch ==
    /\ test_hand \in SearchInputs
    /\ frame = <<entered(test_hand, <<>>, 0)>>
    /\ wins = FALSE
    /\ pc = "searching"
    /\ hand = <<>>
    /\ winning_tiles = {}
    /\ before = {}
    /\ replaced = <<>>
    /\ shapes = {}
    /\ swaps = 0
    /\ hand_str = <<>>
    /\ tiles_in = <<>>
    /\ parsed = <<>>
    /\ result = [error |-> "none"]
    /\ solver_called = FALSE
    /\ raised = "none"
    /\ heap = <<>>
    /\ call = "none"
    /\ hash_seed = 0
    /\ earlier = [error |-> "none"]
    /\ expanded = <<>>
    /\ slots = <<>>
    /\ last_op = "none"
    /\ slots_before = <<>>

\* lines 197-209: the two returns at the head of the call, then
\* remaining_sorted and first_tile
Enter ==
    /\ pc = "searching"
    /\ top.at = "enter"
    /\ IF top.remaining = <<>>
       THEN return_with(
                /\ Len(SelectSeq(top.groups, LAMBDA g : Len(g) = 3)) = 4
                /\ Len(SelectSeq(top.groups, LAMBDA g : Len(g) = 2)) = 1)
       ELSE IF Len(top.groups) > 5
       THEN return_with(FALSE)
       ELSE /\ frame' = [frame EXCEPT
                             ![Len(frame)].remaining_sorted =
                                 sorted(top.remaining),
                             ![Len(frame)].at = "pair"]
            /\ UNCHANGED <<wins, pc>>
    /\ UNCHANGED <<test_hand, search_rest>>

\* lines 213-219
TryPair ==
    /\ pc = "searching"
    /\ top.at = "pair"
    /\ IF pair_allowed(top)
       THEN call_with(<<first_tile_of(top), first_tile_of(top)>>, 1, "triplet")
       ELSE frame' = [frame EXCEPT ![Len(frame)].at = "triplet"]
    /\ UNCHANGED <<wins, pc, test_hand, search_rest>>

\* lines 222-229
TryTriplet ==
    /\ pc = "searching"
    /\ top.at = "triplet"
    /\ IF triplet_allowed(top)
       THEN call_with(<<first_tile_of(top), first_tile_of(top),
                        first_tile_of(top)>>, top.pair_count, "sequence")
       ELSE frame' = [frame EXCEPT ![Len(frame)].at = "sequence"]
    /\ UNCHANGED <<wins, pc, test_hand, search_rest>>

\* lines 232-245
TrySequence ==
    /\ pc = "searching"
    /\ top.at = "sequence"
    /\ IF sequence_allowed(top)
       THEN call_with(<<first_tile_of(top),
                        Tile(Num(first_tile_of(top)) + 1, Suit(first_tile_of(top))),
                        Tile(Num(first_tile_of(top)) + 2, Suit(first_tile_of(top)))>>,
                      top.pair_count, "end")
       ELSE frame' = [frame EXCEPT ![Len(frame)].at = "end"]
    /\ UNCHANGED <<wins, pc, test_hand, search_rest>>

\* line 247
ReturnFalse ==
    /\ pc = "searching"
    /\ top.at = "end"
    /\ return_with(FALSE)
    /\ UNCHANGED <<test_hand, search_rest>>

NextSearch == Enter \/ TryPair \/ TryTriplet \/ TrySequence \/ ReturnFalse

\* a call that has started runs on: the interpreter does not stop halfway
SpecSearch == InitSearch /\ [][NextSearch]_vars /\ WF_vars(NextSearch)

\* what holds of every call that has not returned
SearchBounded ==
    \A d \in DOMAIN frame :
        /\ frame[d].calls <= 3
        /\ Len(SelectSeq(frame[d].groups, LAMBDA g : Len(g) = 2)) <= 1
        /\ Len(SelectSeq(frame[d].groups, LAMBDA g : Len(g) = 2))
               = frame[d].pair_count
        /\ Len(test_hand) = 14 => Len(frame[d].groups) <= 5

\* a step that makes a call hands it 2 or 3 tiles fewer than the caller got
CallShrinks ==
    Len(frame') = Len(frame) + 1 =>
        Len(frame'[Len(frame')].remaining)
            \in {Len(top.remaining) - 2, Len(top.remaining) - 3}

\* C28: the standard-shape search returns on every input; every call it
\* makes gets 2 or 3 tiles fewer than its caller, no call makes more than 3
\* calls, no branch commits a second pair, and on a 14-tile input no branch
\* holds more than 5 groups
C28_SearchTerminates ==
    /\ []SearchBounded
    /\ [][CallShrinks]_vars
    /\ <>(pc = "returned")
    /\ [](pc = "returned" => wins = check_standard_win(test_hand))

\* a branch of a 14-tile input that has committed a pair and 4 melds
C28_Witness ==
    /\ pc = "searching"
    /\ Len(test_hand) = 14
    /\ Len(frame) = 6
    /\ Len(top.groups) = 5
    /\ top.pair_count = 1
    /\ frame[1].calls >= 2

(***************************************************************************)
(* The hand panel of the window: slots is HandPanel.tiles, NoTile for      *)
(* None.  last_op names the handler that ran last; while the last handler  *)
(* is an accepted tile selection, or the undo right after one,             *)
(* slots_before keeps the slots as they were before that selection         *)
(* (history only, the program does not store it).                          *)
(***************************************************************************)
\* HandPanel(left_frame, self.asset_manager, max_tiles=14)
max_tiles == 14

\* self.tiles = [None] * max_tiles
empty_slots == [i \in 1..max_tiles |-> NoTile]

\* get_hand
get_hand(tiles) == SelectSeq(tiles, LAMBDA t : t # NoTile)

\* add_tile: the first empty slot takes the tile; False when no slot is empty
add_tile(tiles, code) ==
    IF \A i \in DOMAIN tiles : tiles[i] # NoTile
    THEN [tiles |-> tiles, ret |-> FALSE]
    ELSE LET i == CHOOSE k \in DOMAIN tiles :
                      /\ tiles[k] = NoTile
                      /\ \A g \in DOMAIN tiles : tiles[g] = NoTile => k <= g
         IN  [tiles |-> [tiles EXCEPT ![i] = code], ret |-> TRUE]

\* remove_tile
remove_tile(tiles, index) ==
    IF index \in DOMAIN tiles THEN [tiles EXCEPT ![index] = NoTile] ELSE tiles

RECURSIVE add_each(_, _)
\* the loop of set_hand
add_each(tiles, new_tiles) ==
    IF new_tiles = <<>> THEN tiles
    ELSE add_each(add_tile(tiles, Head(new_tiles)).tiles, Tail(new_tiles))

\* set_hand: clear, then add_tile for each of tiles[:self.max_tiles]
set_hand(new_tiles) ==
    add_each(empty_slots,
             SubSeq(new_tiles, 1,
                    IF Len(new_tiles) < max_tiles THEN Len(new_tiles)
                    ELSE max_tiles))

\* the highest slot that holds a tile: the slot _undo empties
last_taken(tiles) ==
    CHOOSE k \in DOMAIN tiles :
        /\ tiles[k] # NoTile
        /\ \A g \in DOMAIN tiles : tiles[g] # NoTile => g <= k

\* the four lists of _load_example
examples ==
    { Hand(<<1, 2, 3>>, M) \o Hand(<<4, 5, 6>>, P) \o Hand(<<7, 8, 9>>, S)
          \o Hand(<<1, 1, 2, 2>>, Z),
      Hand(<<1, 1>>, M) \o Hand(<<2, 2>>, P) \o Hand(<<3, 3>>, S)
          \o Hand(<<4, 4, 5, 5, 6, 6, 7>>, Z),
      Hand(<<1, 9>>, M) \o Hand(<<1, 9>>, P) \o Hand(<<1, 9>>, S)
          \o Hand(<<1, 2, 3, 4, 5, 6>>, Z) \o <<J>>,
      Hand(<<1, 2, 3, 4, 5, 6, 7, 8, 9>>, M) \o Hand(<<1, 1>>, P) \o <<J, J>> }

\* the tile button pressed, the slots clicked, and the hands in the files
\* opened: of 3, 14 and 15 tiles
PressedTiles == {Tile(5, Z)}
ClickedSlots == {1, 2, max_tiles}
SavedHands ==
    { Hand(<<7, 8, 9>>, S),
      Hand(<<1, 1, 1, 2, 3, 4, 5, 6, 7, 8, 9, 9, 9>>, P) \o <<J>>,
      Hand(<<1, 1, 1, 2, 3, 4, 5, 6, 7, 8, 9, 9, 9>>, S) \o Hand(<<1, 2>>, Z) }

gui_rest ==
    <<hand, winning_tiles, before, replaced, test_hand, shapes, pc, swaps,
      io_vars, obj_vars, run_vars, engine_vars>>

InitGui ==
    /\ slots = empty_slots
    /\ last_op = "none"
    /\ slots_before = empty_slots
    /\ pc = "window"
    /\ hand = <<>>
    /\ winning_tiles = {}
    /\ before = {}
    /\ replaced = <<>>
    /\ test_hand = <<>>
    /\ shapes = {}
    /\ swaps = 0
    /\ hand_str = <<>>
    /\ tiles_in = <<>>
    /\ parsed = <<>>
    /\ result = [error |-> "none"]
    /\ solver_called = FALSE
    /\ raised = "none"
    /\ heap = <<>>
    /\ call = "none"
    /\ hash_seed = 0
    /\ earlier = [error |-> "none"]
    /\ expanded = <<>>
    /\ wins = FALSE
    /\ frame = <<>>

\* _on_tile_selected: the warning is shown when add_tile returns False
OnTileSelected(code) ==
    /\ pc = "window"
    /\ IF add_tile(slots, code).ret
       THEN /\ slots' = add_tile(slots, code).tiles
            /\ slots_before' = slots
            /\ last_op' = "selected"
       ELSE /\ last_op' = "hand_full_warning"
            /\ slots_before' = empty_slots
            /\ UNCHANGED slots
    /\ UNCHANGED gui_rest

\* HandPanel._on_tile_click on the slot with this index
OnTileClick(index) ==
    /\ pc = "window"
    /\ slots' = IF slots[index] # NoTile THEN remove_tile(slots, index)
                ELSE slots
    /\ last_op' = "clicked"
    /\ slots_before' = empty_slots
    /\ UNCHANGED gui_rest

\* _undo
Undo ==
    /\ pc = "window"
    /\ IF get_hand(slots) # <<>>
       THEN /\ slots' = remove_tile(slots, last_taken(slots))
            /\ last_op' = IF last_op = "selected" THEN "undone_selection"
                          ELSE "undone"
            /\ slots_before' = IF last_op = "selected" THEN slots_before
                               ELSE empty_slots
       ELSE /\ last_op' = "nothing_to_undo"
            /\ slots_before' = empty_slots
            /\ UNCHANGED slots
    /\ UNCHANGED gui_rest

\* _clear_hand
ClearHand ==
    /\ pc = "window"
    /\ slots' = empty_slots
    /\ last_op' = "cleared"
    /\ slots_before' = empty_slots
    /\ UNCHANGED gui_rest

\* _load_example: random.choice(examples)
LoadExample ==
    /\ pc = "window"
    /\ \E example \in examples : slots' = set_hand(example)
    /\ last_op' = "example_loaded"
    /\ slots_before' = empty_slots
    /\ UNCHANGED gui_rest

\* _load_hand with a file that holds a hand
LoadHand ==
    /\ pc = "window"
    /\ \E saved \in SavedHands : slots' = set_hand(saved)
    /\ last_op' = "hand_loaded"
    /\ slots_before' = empty_slots
    /\ UNCHANGED gui_rest

NextGui ==
    \/ \E code \in PressedTiles : OnTileSelected(code)
    \/ \E index \in ClickedSlots : OnTileClick(index)
    \/ Undo
    \/ ClearHand
    \/ LoadExample
    \/ LoadHand

SpecGui == InitGui /\ [][NextGui]_vars

\* C29: the hand panel never holds more than 13 tiles, and a tile selected
\* while 13 tiles are present is refused with the warning
C29_AtMostThirteenTiles ==
    /\ Len(get_hand(slots)) <= 13
    /\ last_op = "selected" => Len(get_hand(slots_before)) < 13

\* C30: an undo right after an accepted tile selection leaves every slot as
\* it was before the tile was added
C30_UndoRestoresSlots ==
    last_op = "undone_selection" => slots = slots_before

====
